---- MODULE Spec2Model ----
(***************************************************************************)
(* A model of the recursive variant of fetch-places.ts (the second script  *)
(* of src/fetch-places.ts, lines 420-836): main's pipeline geocode ->      *)
(* recursive quadrant search -> dedup -> distance/exclusion filter ->      *)
(* detail enrichment -> sort -> places.json.                               *)
(*                                                                         *)
(* Every action is the code that runs between two awaits of the script.    *)
(* The provider (geocoding, searchNearby, place details) is the            *)
(* environment: its answers are drawn from the bounded world below.        *)
(*                                                                         *)
(* Geometry.  A Location is a point [lat, lng] of the tangent plane,       *)
(* measured in metres north and east of a fixed reference point.  The      *)
(* script converts metres to degrees with 111320 m per degree of latitude  *)
(* and 111320*cos(lat) m per degree of longitude; in this plane an offset  *)
(* of offsetLat degrees is newRadius metres north and an offset of         *)
(* offsetLng degrees is newRadius metres east.  Coordinates and radii are  *)
(* dyadic rationals n / 2^e (halving a binary floating point number is     *)
(* exact), so radius/2 is computed exactly at every depth.                 *)
(***************************************************************************)
EXTENDS Integers, Sequences, FiniteSets, TLC

(***************************************************************************)
(* Program constants                                                       *)
(***************************************************************************)
PLACE_TYPES == <<"restaurant", "bar", "cafe", "bakery">>

\* searchNearbyRecursive's limit test `results.length < 20`
MaxResultCount == 20

\* searchNearbyRecursive's default parameter minRadius = 500
DefaultMinRadius == 500

\* main: RADIUS_METERS = radiusArg ? parseInt(radiusArg, 10) : 100
DefaultRadius == 100

(***************************************************************************)
(* Bounds of the model                                                     *)
(***************************************************************************)
\* number of places of the dense worlds
NumPlaces == 22

(***************************************************************************)
(* Dyadic rationals: [n |-> numerator, e |-> exponent] is n / 2^e          *)
(***************************************************************************)
RECURSIVE Pow2(_)
Pow2(k) == IF k = 0 THEN 1 ELSE 2 * Pow2(k - 1)

RECURSIVE DyNorm(_)
DyNorm(d) ==
  IF d.e > 0 /\ d.n % 2 = 0 THEN DyNorm([n |-> d.n \div 2, e |-> d.e - 1]) ELSE d

Dy(i) == [n |-> i, e |-> 0]

MaxOf(a, b) == IF a >= b THEN a ELSE b

\* the numerator of d over the denominator 2^E (E >= d.e)
DyAt(d, E) == d.n * Pow2(E - d.e)

DyAdd(a, b) ==
  LET E == MaxOf(a.e, b.e) IN DyNorm([n |-> DyAt(a, E) + DyAt(b, E), e |-> E])

DySub(a, b) ==
  LET E == MaxOf(a.e, b.e) IN DyNorm([n |-> DyAt(a, E) - DyAt(b, E), e |-> E])

\* radius / 2
DyHalf(d) == DyNorm([n |-> d.n, e |-> d.e + 1])

DyLeq(a, b) == LET E == MaxOf(a.e, b.e) IN DyAt(a, E) <= DyAt(b, E)

DyLess(a, b) == LET E == MaxOf(a.e, b.e) IN DyAt(a, E) < DyAt(b, E)

Loc(la, ln) == [lat |-> Dy(la), lng |-> Dy(ln)]

\* the common exponent of a point, a centre and a radius
CommonExp(p, c, r) ==
  MaxOf(MaxOf(MaxOf(p.lat.e, p.lng.e), MaxOf(c.lat.e, c.lng.e)), r.e)

\* the provider's locationRestriction.circle: p lies within radius r of c
InCircle(p, c, r) ==
  LET E  == CommonExp(p, c, r)
      dy == DyAt(p.lat, E) - DyAt(c.lat, E)
      dx == DyAt(p.lng, E) - DyAt(c.lng, E)
      rr == DyAt(r, E)
  IN  dy * dy + dx * dx <= rr * rr

\* floor(sqrt(n)) for lo*lo <= n < hi*hi
RECURSIVE ISqrtIn(_, _, _)
ISqrtIn(lo, hi, n) ==
  IF hi - lo <= 1 THEN lo
  ELSE LET mid == (lo + hi) \div 2
       IN  IF mid * mid <= n THEN ISqrtIn(mid, hi, n) ELSE ISqrtIn(lo, mid, n)

RECURSIVE SqrtUpper(_, _)
SqrtUpper(h, n) == IF h * h > n THEN h ELSE SqrtUpper(2 * h, n)

ISqrt(n) == ISqrtIn(0, SqrtUpper(1, n), n)

\* haversineDistance(loc1, loc2): Math.round(R * c).  In the tangent plane the
\* great-circle length R * c is the Euclidean distance; Math.round(x) is
\* floor(x + 1/2) = (floor(2x) + 1) div 2.
\* the length cut to whole metres, not rounded
haversineDistanceTruncated(loc1, loc2) ==
  LET E  == MaxOf(MaxOf(loc1.lat.e, loc1.lng.e), MaxOf(loc2.lat.e, loc2.lng.e))
      dy == DyAt(loc2.lat, E) - DyAt(loc1.lat, E)
      dx == DyAt(loc2.lng, E) - DyAt(loc1.lng, E)
  IN  (ISqrt(4 * (dy * dy + dx * dx)) \div Pow2(E)) \div 2

haversineDistance(loc1, loc2) ==
  LET E  == MaxOf(MaxOf(loc1.lat.e, loc1.lng.e), MaxOf(loc2.lat.e, loc2.lng.e))
      dy == DyAt(loc2.lat, E) - DyAt(loc1.lat, E)
      dx == DyAt(loc2.lng, E) - DyAt(loc1.lng, E)
      twice == ISqrt(4 * (dy * dy + dx * dx)) \div Pow2(E)
  IN  (twice + 1) \div 2

(***************************************************************************)
(* parseInt(radiusArg, 10) on an argument given as a sequence of           *)
(* characters: an optional sign, then the longest prefix of digits; NaN    *)
(* when there is no digit.                                                 *)
(***************************************************************************)
Digits == <<"0", "1", "2", "3", "4", "5", "6", "7", "8", "9">>

IsDigit(c) == \E i \in 1..Len(Digits) : Digits[i] = c

DigitVal(c) == (CHOOSE i \in 1..Len(Digits) : Digits[i] = c) - 1

RECURSIVE ParseDigits(_, _)
ParseDigits(s, acc) ==
  IF s = <<>> \/ ~IsDigit(Head(s)) THEN acc
  ELSE ParseDigits(Tail(s), 10 * acc + DigitVal(Head(s)))

parseInt(s) ==
  LET neg  == s # <<>> /\ Head(s) = "-"
      body == IF s # <<>> /\ Head(s) \in {"-", "+"} THEN Tail(s) ELSE s
  IN  IF body = <<>> \/ ~IsDigit(Head(body))
        THEN [nan |-> TRUE, val |-> 0]
        ELSE [nan |-> FALSE,
              val |-> IF neg THEN 0 - ParseDigits(body, 0) ELSE ParseDigits(body, 0)]

\* process.argv[3] of the runs explored: absent, not a number, zero,
\* negative, a fraction below one, digits followed by a unit, and radii
\* below, at and above the subdivision floor
RadiusArgs ==
  { <<>>, <<"a", "b">>, <<"0">>, <<"-", "5">>, <<"0", ".", "5">>,
    <<"3", "0", "0", "m">>,
    <<"4", "0", "0">>, <<"5", "0", "0">>, <<"1", "0", "0", "0">>, <<"1", "0", "0", "1">>,
    <<"2", "0", "0", "0">> }

(***************************************************************************)
(* The provider's world: places with a position and types.                 *)
(***************************************************************************)
Worlds == {"sparse", "center", "cluster"}

\* the five cafes of the sparse world
SparseSites == << <<30, 40>>, <<-60, 80>>, <<200, -100>>, <<-300, -300>>, <<0, 390>> >>

\* the center world: a place at each origin, one where two quadrant circles
\* touch, one outside the 1000 m circle but inside a quadrant circle, one at
\* 1000.35 m of the origin
CenterSites == << <<0, 0>>, <<120, -80>>, <<500, 0>>, <<900, 800>>, <<353, 936>> >>

\* lat north, lng east: NW, NE, SW, SE
QuadSites == << <<450, -450>>, <<450, 450>>, <<-450, -450>>, <<-450, 450>> >>

ClusterSites == << <<333, 333>>, <<340, 330>> >>

PlaceIds(w) == IF w = "sparse" THEN 1..Len(SparseSites) ELSE 1..NumPlaces

SiteOf(w, i) ==
  IF w = "sparse" THEN SparseSites[i]
  ELSE IF w = "cluster" THEN ClusterSites[(i % 2) + 1]
  ELSE IF i <= Len(CenterSites) THEN CenterSites[i]
  ELSE QuadSites[((i - Len(CenterSites) - 1) % 4) + 1]

LocationOf(w, i) == Loc(SiteOf(w, i)[1], SiteOf(w, i)[2])

\* the categories a place belongs to (the provider's includedTypes filter)
CategoriesOf(w, i) ==
  IF w = "sparse"
    THEN IF i = 1 THEN {"cafe", "bakery"} ELSE IF i = 2 THEN {"cafe", "bar"} ELSE {"cafe"}
  ELSE IF w = "cluster"
    THEN {"restaurant"} \cup (IF i <= MaxResultCount THEN {"bar"} ELSE {})
                        \cup (IF i <= 5 THEN {"cafe"} ELSE {})
  ELSE {"restaurant"} \cup (IF i % 7 = 0 THEN {"bar"} ELSE {})

\* places.types of a result: in the cluster world the provider reports the
\* queried type first and a generic type; elsewhere the place's categories in
\* PLACE_TYPES order
SelectSeq2(s, S) == SelectSeq(s, LAMBDA x : x \in S)

ReportedTypes(w, i, type) ==
  IF w = "cluster" THEN <<type, "food">> ELSE SelectSeq2(PLACE_TYPES, CategoriesOf(w, i))

\* one element of data.places as searchNearby stores it (PlaceBasic)
Stub(w, i, type) ==
  [place_id |-> i,
   name     |-> IF w = "cluster" THEN <<"place", i, type>> ELSE <<"place", i>>,
   types    |-> ReportedTypes(w, i, type),
   location |-> LocationOf(w, i)]

\* the ids of category `type` inside the circle, in the provider's order
Matching(w, center, radius, type) ==
  SelectSeq([i \in 1..Cardinality(PlaceIds(w)) |-> i],
            LAMBDA i : /\ type \in CategoriesOf(w, i)
                       /\ InCircle(LocationOf(w, i), center, radius))

\* the geocoder's answers for the address
Origins == {Loc(0, 0), Loc(120, -80)}

\* loadExcludeList: const excludeFile = "exclude.json"
excludeFile == "exclude.json"

\* the output written over the exclusion list
outputFileExclude == "exclude.json"

\* main: const outputFile = "places.json"
outputFile == "places.json"

\* a file that does not exist
Absent == [kind |-> "absent", items |-> <<>>]

\* what surrounds a run: the contents of exclude.json on disk, and the places
\* whose details request the provider answers with an HTTP error status.
\* A file is absent, or text that JSON.parse rejects (items: the ids its text
\* mentions), or a JSON object (items: its values), or a JSON array.
Environments ==
  { [file |-> [kind |-> "absent",    items |-> <<>>],            down |-> {}],
    [file |-> [kind |-> "malformed", items |-> <<6, 1>>],        down |-> {6}],
    [file |-> [kind |-> "object",    items |-> <<2, 3>>],        down |-> {}],
    [file |-> [kind |-> "array",     items |-> <<>>],            down |-> {1, 2, 3}],
    [file |-> [kind |-> "array",     items |-> <<6, 1, 6, 99>>], down |-> {4, 7}] }

(***************************************************************************)
(* State                                                                   *)
(***************************************************************************)
VARIABLES
  pc,             \* where the script is suspended
  entry,          \* "main", or "searchNearbyRecursive" when the function is run alone
  radiusArg,      \* process.argv[3]
  RADIUS_METERS,  \* main's RADIUS_METERS (a dyadic)
  world,          \* the provider's places
  paging,         \* whether the provider hands out nextPageToken
  disk,           \* the files exclude.json and places.json
  origin,         \* main's origin
  excludeList,    \* main's excludeList
  typeIdx,        \* index into PLACE_TYPES of main's search loop
  stack,          \* the active searchNearbyRecursive invocations, innermost last
  sn,             \* the locals of the running searchNearby
  allPlaces,      \* main's allPlaces
  uniquePlaces,   \* main's uniquePlaces, in Map iteration order
  detailIdx,      \* position of the details loop in uniquePlaces
  detailedPlaces, \* main's detailedPlaces
  detailsDown,    \* the places whose details request fails
  exitCode,       \* -1 while running, else the process exit code
  errorMessage,   \* what console.error printed last
  apiCallCount,   \* the API call counters
  calls,          \* history: every searchNearbyRecursive invocation so far
  responses,      \* history: the last response of the provider, and the geocoder's
  aggregated,     \* history: uniquePlaces as step 3 of main built it
  sleepMs,        \* the delay of the sleep the script is in, 0 when in none
  weekdayTextArg, \* the argument of parseOpeningHours when it is run alone
  hitLimitTypes,  \* fixed-ring main's hitLimitTypes, in insertion order
  searchPoints,   \* fixed-ring main's searchPoints
  hitIdx,         \* fixed-ring main, step 3: position in hitLimitTypes (0: not there)
  pointIdx,       \* fixed-ring main, step 3: position in searchPoints (0: not there)
  searches,       \* history: the searchNearby invocations of the fixed-ring main
  ret             \* the value returned when the function is run alone

vars ==
  << pc, entry, radiusArg, RADIUS_METERS, world, paging, disk, origin,
     excludeList, typeIdx, stack, sn, allPlaces, uniquePlaces, detailIdx,
     detailedPlaces, detailsDown, exitCode, errorMessage, apiCallCount, calls,
     responses, aggregated, sleepMs, weekdayTextArg, hitLimitTypes, searchPoints,
     hitIdx, pointIdx, searches, ret >>

NoSn == [location |-> Loc(0, 0), type |-> "", radius |-> Dy(0), places |-> <<>>,
         nextPageToken |-> 0]

(***************************************************************************)
(* searchNearbyRecursive                                                   *)
(***************************************************************************)
\* the limit test of searchNearbyRecursive
ResultLimit == 20

\* the floor test written `radius < minRadius`
IsLeafStrict(results, radius, minRadius) ==
  Len(results) < ResultLimit \/ DyLess(radius, minRadius)

\* the limit test written `results.length <= 20`
IsLeafInclusive(results, radius, minRadius) ==
  Len(results) <= ResultLimit \/ DyLeq(radius, minRadius)

\* `results.length < 20 || radius <= minRadius`: return results as they are
IsLeaf(results, radius, minRadius) ==
  Len(results) < ResultLimit \/ DyLeq(radius, minRadius)

\* newRadius = radius / 4
NewRadiusQuarter(radius) == DyHalf(DyHalf(radius))

\* newRadius = radius / 2
NewRadius(radius) == DyHalf(radius)

\* the quadrants taken column by column: NW, SW, NE, SE
QuadrantsByColumn(center, radius) ==
  LET newRadius == NewRadius(radius)
  IN  << [name |-> "NW", lat |-> DyAdd(center.lat, newRadius), lng |-> DySub(center.lng, newRadius)],
         [name |-> "SW", lat |-> DySub(center.lat, newRadius), lng |-> DySub(center.lng, newRadius)],
         [name |-> "NE", lat |-> DyAdd(center.lat, newRadius), lng |-> DyAdd(center.lng, newRadius)],
         [name |-> "SE", lat |-> DySub(center.lat, newRadius), lng |-> DyAdd(center.lng, newRadius)] >>

\* the centres offset by the parent's radius instead of newRadius
QuadrantsFullOffset(center, radius) ==
  << [name |-> "NW", lat |-> DyAdd(center.lat, radius), lng |-> DySub(center.lng, radius)],
     [name |-> "NE", lat |-> DyAdd(center.lat, radius), lng |-> DyAdd(center.lng, radius)],
     [name |-> "SW", lat |-> DySub(center.lat, radius), lng |-> DySub(center.lng, radius)],
     [name |-> "SE", lat |-> DySub(center.lat, radius), lng |-> DyAdd(center.lng, radius)] >>

\* the four quadrant centres NW, NE, SW, SE
Quadrants(center, radius) ==
  LET newRadius == NewRadius(radius)
      offsetLat == newRadius
      offsetLng == newRadius
  IN  << [name |-> "NW", lat |-> DyAdd(center.lat, offsetLat), lng |-> DySub(center.lng, offsetLng)],
         [name |-> "NE", lat |-> DyAdd(center.lat, offsetLat), lng |-> DyAdd(center.lng, offsetLng)],
         [name |-> "SW", lat |-> DySub(center.lat, offsetLat), lng |-> DySub(center.lng, offsetLng)],
         [name |-> "SE", lat |-> DySub(center.lat, offsetLat), lng |-> DyAdd(center.lng, offsetLng)] >>

Top(st) == st[Len(st)]

Pop(st) == SubSeq(st, 1, Len(st) - 1)

\* entering searchNearbyRecursive(center, radius, type, minRadius, depth):
\* a new frame, and a new entry of the history
StartCall(st, cl, center, radius, type, minRadius, depth) ==
  LET id     == Len(cl) + 1
      parent == IF st = <<>> THEN 0 ELSE Top(st).call
      cl1    == IF parent = 0 THEN cl
                ELSE [cl EXCEPT ![parent].kids = Append(@, id)]
  IN  [stack |-> Append(st, [call |-> id, center |-> center, radius |-> radius,
                             type |-> type, minRadius |-> minRadius, depth |-> depth,
                             quadrants |-> <<>>, qi |-> 0, allResults |-> <<>>]),
       calls |-> Append(cl1, [parent |-> parent, center |-> center, radius |-> radius,
                              type |-> type, minRadius |-> minRadius, depth |-> depth,
                              searched |-> FALSE, results |-> <<>>, kids |-> <<>>,
                              returned |-> FALSE, value |-> <<>>]),
       done  |-> FALSE,
       value |-> <<>>]

\* the recursive call for quadrant qi of the innermost frame
StartQuadrant(st, cl, qi) ==
  LET f    == Top(st)
      quad == f.quadrants[qi]
  IN  StartCall(st, cl, [lat |-> quad.lat, lng |-> quad.lng], NewRadius(f.radius),
                f.type, f.minRadius, f.depth + 1)

\* the innermost invocation returns `value`: its caller pushes the value on
\* allResults and goes on with the next quadrant, or returns allResults itself
RECURSIVE ReturnValue(_, _, _)
ReturnValue(st, cl, value) ==
  LET f    == Top(st)
      cl1  == [cl EXCEPT ![f.call].returned = TRUE, ![f.call].value = value]
      rest == Pop(st)
  IN  IF rest = <<>>
        THEN [stack |-> <<>>, calls |-> cl1, done |-> TRUE, value |-> value]
        ELSE LET par   == Top(rest)
                 par1  == [par EXCEPT !.allResults = @ \o value]
                 rest1 == [rest EXCEPT ![Len(rest)] = par1]
             IN  IF par.qi < Len(par.quadrants)
                   THEN StartQuadrant([rest1 EXCEPT ![Len(rest)].qi = par.qi + 1],
                                      cl1, par.qi + 1)
                   ELSE ReturnValue(rest1, cl1, par1.allResults)

\* searchNearby has returned `results` to the innermost invocation
SearchReturned(st, cl, results) ==
  LET f   == Top(st)
      cl1 == [cl EXCEPT ![f.call].searched = TRUE, ![f.call].results = results]
  IN  IF IsLeaf(results, f.radius, f.minRadius)
        THEN ReturnValue(st, cl1, results)
        ELSE StartQuadrant(
               [st EXCEPT ![Len(st)].quadrants = Quadrants(f.center, f.radius),
                          ![Len(st)].qi = 1],
               cl1, 1)

\* the locals of searchNearby(location, type, radius) at its first request
NewSearch(f) ==
  [location |-> f.center, type |-> f.type, radius |-> f.radius, places |-> <<>>,
   nextPageToken |-> 0]

(***************************************************************************)
(* The provider's answers                                                  *)
(***************************************************************************)
MinOf(a, b) == IF a <= b THEN a ELSE b

\* data.places of the response to a request with page offset `token`
PageIds(w, s, token) ==
  LET M == Matching(w, s.location, s.radius, s.type)
  IN  SubSeq(M, token + 1, MinOf(token + MaxResultCount, Len(M)))

\* data.nextPageToken of that response (0: none)
NextToken(w, pg, s, token) ==
  LET M == Matching(w, s.location, s.radius, s.type)
  IN  IF pg /\ token + MaxResultCount < Len(M) THEN token + MaxResultCount ELSE 0

\* `places` overwritten by each page instead of pushed onto
PushPlacesLastPage(places, w, ids, type) ==
  [k \in 1..Len(ids) |-> Stub(w, ids[k], type)]

\* the loop `for (const result of data.places || [])` of searchNearby
PushPlaces(places, w, ids, type) ==
  places \o [k \in 1..Len(ids) |-> Stub(w, ids[k], type)]

(***************************************************************************)
(* main, steps 3 and 4: deduplicate, filter                                *)
(***************************************************************************)
IndexOfId(m, id) ==
  IF \E k \in 1..Len(m) : m[k].place_id = id
    THEN CHOOSE k \in 1..Len(m) : m[k].place_id = id
    ELSE 0

\* [...new Set(list)]: first occurrences, in order
RECURSIVE UniqueInOrder(_, _)
UniqueInOrder(list, acc) ==
  IF list = <<>> THEN acc
  ELSE UniqueInOrder(Tail(list),
                     IF \E k \in 1..Len(acc) : acc[k] = Head(list)
                       THEN acc ELSE Append(acc, Head(list)))

\* the types of the first stub kept, the incoming ones dropped
MergeTypesKeepExisting(existing, place) == existing

\* existing.types = [...new Set([...existing.types, ...place.types])]
MergeTypes(existing, place) ==
  [existing EXCEPT !.types = UniqueInOrder(existing.types \o place.types, <<>>)]

\* the entry replaced by the incoming stub, which takes the merged types
DedupStepLastWins(m, place) ==
  LET k == IndexOfId(m, place.place_id)
  IN  IF k = 0 THEN Append(m, place)
      ELSE [m EXCEPT ![k] = [place EXCEPT !.types = MergeTypes(m[k], place).types]]

\* one iteration of `for (const place of allPlaces)` on the Map m
DedupStep(m, place) ==
  LET k == IndexOfId(m, place.place_id)
  IN  IF k = 0 THEN Append(m, place)
      ELSE [m EXCEPT ![k] = MergeTypes(m[k], place)]

\* the loop `for (const place of allPlaces)`: loop.rest is what is left to
\* visit, loop.map the Map so far; the loop over a list is the loop over its
\* first half followed by the loop over its second half
RECURSIVE DedupLoop(_)
DedupLoop(loop) ==
  IF loop.rest = <<>> THEN loop.map
  ELSE IF Len(loop.rest) = 1 THEN DedupStep(loop.map, loop.rest[1])
  ELSE LET h == Len(loop.rest) \div 2
       IN  DedupLoop([rest |-> SubSeq(loop.rest, h + 1, Len(loop.rest)),
                      map  |-> DedupLoop([rest |-> SubSeq(loop.rest, 1, h),
                                          map  |-> loop.map])])

\* uniquePlaces = Array.from(uniquePlacesMap.values())
Dedup(places) == DedupLoop([rest |-> places, map |-> <<>>])

\* the radius test written `distance < RADIUS_METERS`
RetainedStrict(place, org, radiusMeters, excl) ==
  /\ DyLess(Dy(haversineDistance(org, place.location)), radiusMeters)
  /\ place.place_id \notin excl

\* the predicate of `filtered`
Retained(place, org, radiusMeters, excl) ==
  LET distance       == haversineDistance(org, place.location)
      isWithinRadius == DyLeq(Dy(distance), radiusMeters)
      isNotExcluded  == place.place_id \notin excl
  IN  isWithinRadius /\ isNotExcluded

\* `filtered` taken to be all of the Map's values
FilterPlacesKeepAll(m, org, radiusMeters, excl) == m

FilterPlaces(m, org, radiusMeters, excl) ==
  SelectSeq(m, LAMBDA place : Retained(place, org, radiusMeters, excl))

\* loadExcludeList()
SetOf(list) == {list[k] : k \in 1..Len(list)}

\* the file's ids taken whatever the file holds
loadExcludeListUnchecked(file) ==
  IF file.kind = "absent" THEN {} ELSE SetOf(file.items)

loadExcludeList(file) ==
  IF file.kind = "absent" THEN {}
  ELSE IF file.kind = "malformed" THEN {}
  ELSE IF file.kind # "array" THEN {}
  ELSE SetOf(file.items)

(***************************************************************************)
(* Place details                                                           *)
(***************************************************************************)
Some(x) == [has |-> TRUE, v |-> x]

\* undefined / null, with a placeholder of the field's type
None(x) == [has |-> FALSE, v |-> x]

\* text is a sequence of one-character strings
UpperCase == <<"M", "O", "N", "D", "A", "Y", "S", "U", "F", "C">>

LowerCase == <<"m", "o", "n", "d", "a", "y", "s", "u", "f", "c">>

OtherWordChars == {"l", "e", "w", "k", "t", "r", "i", "h", "_"}

toLowerCaseChar(c) ==
  IF \E k \in 1..Len(UpperCase) : UpperCase[k] = c
    THEN LowerCase[CHOOSE k \in 1..Len(UpperCase) : UpperCase[k] = c]
    ELSE c

toLowerCase(t) == [k \in 1..Len(t) |-> toLowerCaseChar(t[k])]

\* \w
IsWordChar(c) ==
  \/ IsDigit(c)
  \/ c \in OtherWordChars
  \/ \E k \in 1..Len(UpperCase) : UpperCase[k] = c \/ LowerCase[k] = c

\* \s
IsSpace(c) == c = " "

\* the length of the longest prefix of word characters
RECURSIVE WordLen(_)
WordLen(t) == IF t = <<>> \/ ~IsWordChar(Head(t)) THEN 0 ELSE 1 + WordLen(Tail(t))

\* \s*(.+)$ on t: the spaces skipped, leaving at least one character
RECURSIVE SkipSpaces(_)
SkipSpaces(t) == IF Len(t) > 1 /\ IsSpace(Head(t)) THEN SkipSpaces(Tail(t)) ELSE t

\* line.match(/^(\w+):\s*(.+)$/): [ok, word, rest]
MatchLine(line) ==
  LET n     == WordLen(line)
      after == SubSeq(line, n + 2, Len(line))
  IN  IF n >= 1 /\ Len(line) >= n + 2 /\ line[n + 1] = ":"
        THEN [ok |-> TRUE, word |-> SubSeq(line, 1, n), rest |-> SkipSpaces(after)]
        ELSE [ok |-> FALSE, word |-> <<>>, rest |-> <<>>]

days ==
  { <<"m", "o", "n", "d", "a", "y">>, <<"t", "u", "e", "s", "d", "a", "y">>,
    <<"w", "e", "d", "n", "e", "s", "d", "a", "y">>,
    <<"t", "h", "u", "r", "s", "d", "a", "y">>, <<"f", "r", "i", "d", "a", "y">>,
    <<"s", "a", "t", "u", "r", "d", "a", "y">>, <<"s", "u", "n", "d", "a", "y">> }

\* the loop of parseOpeningHours: hours is a function day -> text
RECURSIVE ParseLines(_, _)
ParseLines(lines, hours) ==
  IF lines = <<>> THEN hours
  ELSE LET match == MatchLine(Head(lines))
           day   == toLowerCase(match.word)
       IN  ParseLines(Tail(lines),
             IF match.ok /\ day \in days
               THEN [d \in DOMAIN hours \cup {day} |->
                       IF d = day THEN match.rest ELSE hours[d]]
               ELSE hours)

\* `return hours` whatever its keys
parseOpeningHoursEmptyMap(weekdayText) ==
  IF ~weekdayText.has \/ weekdayText.v = <<>> THEN None(<<>>)
  ELSE Some(ParseLines(weekdayText.v, <<>>))

\* parseOpeningHours(weekdayText): null (None) or a non-empty mapping
parseOpeningHours(weekdayText) ==
  IF ~weekdayText.has \/ weekdayText.v = <<>> THEN None(<<>>)
  ELSE LET hours == ParseLines(weekdayText.v, <<>>)
       IN  IF DOMAIN hours # {} THEN Some(hours) ELSE None(<<>>)

MondayLine == <<"M", "o", "n", "d", "a", "y", ":", " ", "9", "-", "5">>

SundayLine == <<"S", "U", "N", "D", "A", "Y", ":", "c">>

ClosedLine == <<"C", "l", "o", "s", "e", "d", " ", "a", "l", "l", " ", "w", "e", "e", "k">>

FundayLine == <<"F", "u", "n", "d", "a", "y", ":", " ", "1">>

MondayAgainLine == <<"m", "o", "n", "d", "a", "y", ":", "1", "0">>

NoRestLine == <<"S", "u", "n", "d", "a", "y", ":">>

SpacesLine == <<"F", "r", "i", "d", "a", "y", ":", " ", " ">>

IndentedLine == <<" ", "M", "o", "n", "d", "a", "y", ":", " ", "1">>

\* the body of the details response for place i
DetailsData(i) ==
  IF i % 4 = 0 THEN
    [rating |-> Some(45), userRatingCount |-> Some(120),
     priceLevel |-> Some("PRICE_LEVEL_MODERATE"),
     currentOpeningHours |-> Some(Some(<<MondayLine, ClosedLine, SundayLine>>)),
     formattedAddress |-> Some(<<"street", i>>), googleMapsUri |-> Some(<<"cid", i>>)]
  ELSE IF i % 4 = 1 THEN
    [rating |-> None(0), userRatingCount |-> None(0), priceLevel |-> None(""),
     currentOpeningHours |-> None(None(<<>>)),
     formattedAddress |-> None(<<>>), googleMapsUri |-> None(<<>>)]
  ELSE IF i % 4 = 2 THEN
    [rating |-> Some(0), userRatingCount |-> Some(0),
     priceLevel |-> Some("PRICE_LEVEL_FREE"),
     currentOpeningHours |-> Some(Some(<<ClosedLine, FundayLine>>)),
     formattedAddress |-> Some(<<"street", i>>), googleMapsUri |-> None(<<>>)]
  ELSE
    [rating |-> Some(38), userRatingCount |-> None(0),
     priceLevel |-> Some("PRICE_LEVEL_UNSPECIFIED"),
     currentOpeningHours |-> Some(None(<<>>)),
     formattedAddress |-> None(<<>>), googleMapsUri |-> Some(<<"cid", i>>)]

\* the levels numbered from 1
priceLevelMapOneBased ==
  [PRICE_LEVEL_FREE |-> 1, PRICE_LEVEL_INEXPENSIVE |-> 2, PRICE_LEVEL_MODERATE |-> 3,
   PRICE_LEVEL_EXPENSIVE |-> 4, PRICE_LEVEL_VERY_EXPENSIVE |-> 5]

priceLevelMap ==
  [PRICE_LEVEL_FREE |-> 0, PRICE_LEVEL_INEXPENSIVE |-> 1, PRICE_LEVEL_MODERATE |-> 2,
   PRICE_LEVEL_EXPENSIVE |-> 3, PRICE_LEVEL_VERY_EXPENSIVE |-> 4]

\* `return {}`
EmptyDetails ==
  [rating |-> None(0), user_ratings_total |-> None(0), price_level |-> None(0),
   opening_hours |-> None(None(<<>>)), formatted_address |-> None(<<>>),
   url |-> None(<<>>)]

\* what getPlaceDetails returns for a response (ok, data)
getPlaceDetails(ok, data) ==
  IF ~ok THEN EmptyDetails
  ELSE [rating |-> data.rating,
        user_ratings_total |-> data.userRatingCount,
        price_level |->
          IF data.priceLevel.has /\ data.priceLevel.v # ""
             /\ data.priceLevel.v \in DOMAIN priceLevelMap
            THEN Some(priceLevelMap[data.priceLevel.v]) ELSE None(0),
        opening_hours |->
          IF data.currentOpeningHours.has
            THEN Some(data.currentOpeningHours.v) ELSE None(None(<<>>)),
        formatted_address |-> data.formattedAddress,
        url |-> data.googleMapsUri]

RelevantTypes ==
  {"restaurant", "bar", "cafe", "bakery", "meal_takeaway", "meal_delivery", "night_club"}

\* x ?? dflt
OrElse(x, dflt) == IF x.has THEN x.v ELSE dflt

\* the record main pushes on detailedPlaces
PlaceDetailed(place, details, org) ==
  LET distance      == haversineDistance(org, place.location)
      relevantTypes == SelectSeq2(place.types, RelevantTypes)
  IN  [place_id |-> place.place_id,
       name |-> place.name,
       types |-> IF relevantTypes # <<>> THEN relevantTypes
                 ELSE SubSeq(place.types, 1, MinOf(3, Len(place.types))),
       distance_meters |-> distance,
       location |-> place.location,
       rating |-> details.rating,
       review_count |-> OrElse(details.user_ratings_total, 0),
       price_level |-> details.price_level,
       opening_hours |->
         parseOpeningHours(IF details.opening_hours.has
                             THEN details.opening_hours.v ELSE None(<<>>)),
       address |-> OrElse(details.formatted_address, <<>>),
       google_maps_url |-> OrElse(details.url, <<>>)]

\* detailedPlaces.sort((a, b) => a.distance_meters - b.distance_meters): stable
\* the position of list[k] after the sort: behind every element that compares
\* smaller, and behind the equal ones that came before it
SortedPosition(list, k) ==
  Cardinality({j \in 1..Len(list) :
                 \/ list[j].distance_meters < list[k].distance_meters
                 \/ list[j].distance_meters = list[k].distance_meters /\ j <= k})

\* a sort that puts equal elements in the reverse of their order
SortByDistanceUnstable(list) ==
  [pos \in 1..Len(list) |->
     list[CHOOSE k \in 1..Len(list) :
            Cardinality({j \in 1..Len(list) :
                           \/ list[j].distance_meters < list[k].distance_meters
                           \/ list[j].distance_meters = list[k].distance_meters /\ j >= k})
              = pos]]

SortByDistance(list) ==
  [pos \in 1..Len(list) |->
     list[CHOOSE k \in 1..Len(list) : SortedPosition(list, k) = pos]]

\* a promise that resolves at once
sleepNone(ms) == 0

\* sleep(ms): the delay after which the promise resolves
sleep(ms) == ms

(***************************************************************************)
(* Initial states                                                          *)
(***************************************************************************)
NoCalls == [geocoding |-> 0, placesSearch |-> 0, placesDetails |-> 0]

\* get total() { return this.geocoding + this.placesSearch + this.placesDetails }
total(counts) == counts.geocoding + counts.placesSearch + counts.placesDetails

NoResponses ==
  [last |-> "none",
   geocode |-> [answered |-> FALSE, status |-> "", n |-> 0, location |-> Loc(0, 0)]]

InitCommon ==
  /\ world \in Worlds
  /\ paging \in BOOLEAN
  /\ paging => world # "sparse"
  /\ origin = Loc(0, 0)
  /\ excludeList = {}
  /\ allPlaces = <<>>
  /\ uniquePlaces = <<>>
  /\ aggregated = <<>>
  /\ detailIdx = 0
  /\ detailedPlaces = <<>>
  /\ exitCode = -1
  /\ errorMessage = ""
  /\ responses = NoResponses
  /\ sleepMs = 0
  /\ hitLimitTypes = <<>>
  /\ searchPoints = <<>>
  /\ hitIdx = 0
  /\ pointIdx = 0
  /\ searches = <<>>
  /\ ret = <<>>

\* the script is started with an address and, possibly, a radius
Init ==
  /\ InitCommon
  /\ pc = "start"
  /\ entry = "main"
  /\ radiusArg \in RadiusArgs
  /\ \E env \in Environments :
       /\ disk = [f \in {excludeFile, outputFile} |->
                    IF f = excludeFile THEN env.file ELSE Absent]
       /\ detailsDown = env.down
  /\ RADIUS_METERS = Dy(0)
  /\ typeIdx = 0
  /\ stack = <<>>
  /\ sn = NoSn
  /\ apiCallCount = NoCalls
  /\ calls = <<>>
  /\ weekdayTextArg = None(<<>>)

\* never assigned by the script
inputs == << entry, radiusArg, world, paging, detailsDown, weekdayTextArg >>

\* the locals of the fixed-ring main that the recursive script does not have
ringData == << hitLimitTypes, searchPoints, hitIdx, pointIdx, searches >>

\* main's locals of steps 2 to 7, and the files
mainData ==
  << typeIdx, allPlaces, uniquePlaces, aggregated, detailIdx, detailedPlaces, disk >>

(***************************************************************************)
(* main up to the geocoding request                                        *)
(***************************************************************************)
\* process.exit(1) after console.error(message)
Exit1(message) ==
  /\ pc' = "exited"
  /\ exitCode' = 1
  /\ errorMessage' = message
  /\ stack' = <<>>
  /\ sn' = NoSn

\* RADIUS_METERS = radiusArg ? parseInt(radiusArg, 10) : 100
ParsedRadius(arg) ==
  IF arg # <<>> THEN parseInt(arg) ELSE [nan |-> FALSE, val |-> DefaultRadius]

MainStart ==
  /\ pc = "start"
  /\ LET parsed == ParsedRadius(radiusArg)
     IN  IF parsed.nan \/ parsed.val <= 0
           THEN /\ Exit1("Radius must be a positive number")
                /\ UNCHANGED << RADIUS_METERS, apiCallCount >>
           ELSE /\ RADIUS_METERS' = Dy(parsed.val)
                /\ apiCallCount' = [apiCallCount EXCEPT !.geocoding = @ + 1]
                /\ pc' = "await_geocode"
                /\ UNCHANGED << exitCode, errorMessage, stack, sn >>
  /\ UNCHANGED << inputs, ringData, mainData, origin, excludeList, calls, responses, sleepMs, ret >>

(***************************************************************************)
(* Issuing requests                                                        *)
(***************************************************************************)
\* searchNearby's first request for the innermost invocation of r.stack
IssueSearch(r) ==
  /\ stack' = r.stack
  /\ calls' = r.calls
  /\ sn' = NewSearch(Top(r.stack))
  /\ apiCallCount' = [apiCallCount EXCEPT !.placesSearch = @ + 1]
  /\ pc' = "await_search"

\* writeFileSync(outputFile, JSON.stringify(detailedPlaces))
writeOutput(d, content) == [d EXCEPT ![outputFile] = [kind |-> "array", items |-> content]]

\* Steps 6 and 7 of main: sort, write places.json, return
Finish(detailed) ==
  /\ detailedPlaces' = SortByDistance(detailed)
  /\ disk' = writeOutput(disk, SortByDistance(detailed))
  /\ exitCode' = 0
  /\ pc' = "exited"

\* the status left out of the test
GeocodeFailsOnEmptyOnly(status, results) == Len(results) = 0

\* `data.status !== "OK" || !data.results?.length`
GeocodeFails(status, results) == status # "OK" \/ Len(results) = 0

\* the geocoding response: data.status and data.results
GeocodeResponse ==
  /\ pc = "await_geocode"
  /\ \E status \in {"OK", "ZERO_RESULTS", "REQUEST_DENIED"} :
     \E results \in {<<>>} \cup {<<o>> : o \in Origins} :
       /\ responses' = [last |-> "geocode",
                        geocode |-> [answered |-> TRUE, status |-> status,
                                     n |-> Len(results),
                                     location |-> IF results = <<>> THEN Loc(0, 0)
                                                  ELSE results[1]]]
       /\ IF GeocodeFails(status, results)
            THEN /\ Exit1("Geocoding failed")
                 /\ UNCHANGED << origin, excludeList, typeIdx, apiCallCount, calls >>
            ELSE /\ origin' = results[1]
                 /\ excludeList' = loadExcludeList(disk[excludeFile])
                 /\ typeIdx' = 1
                 /\ IssueSearch(StartCall(<<>>, calls, results[1], RADIUS_METERS,
                                          PLACE_TYPES[1], Dy(DefaultMinRadius), 0))
                 /\ UNCHANGED << exitCode, errorMessage >>
  /\ UNCHANGED << inputs, ringData, RADIUS_METERS, allPlaces, uniquePlaces, aggregated,
                  detailIdx, detailedPlaces, disk, sleepMs, ret >>

(***************************************************************************)
(* searchNearby: responses                                                 *)
(***************************************************************************)
\* main after the search loop: steps 3 and 4, then the first details request
\* or, with nothing left, steps 6 and 7
MainAfterSearch(places) ==
  LET unique   == Dedup(places)
      filtered == FilterPlaces(unique, origin, RADIUS_METERS, excludeList)
  IN  /\ allPlaces' = places
      /\ aggregated' = unique
      /\ uniquePlaces' = filtered
      /\ stack' = <<>>
      /\ sn' = NoSn
      /\ IF filtered = <<>>
           THEN /\ Finish(<<>>)
                /\ UNCHANGED << detailIdx, apiCallCount >>
           ELSE /\ detailIdx' = 1
                /\ apiCallCount' = [apiCallCount EXCEPT !.placesDetails = @ + 1]
                /\ pc' = "await_details"
                /\ UNCHANGED << detailedPlaces, disk, exitCode >>
      /\ UNCHANGED << typeIdx, ret >>

\* steps 3 to 5 entered as soon as the first category has been searched
TopCallReturnedFirstOnly(r) ==
  IF entry # "main"
    THEN /\ ret' = r.value
         /\ pc' = "returned"
         /\ stack' = <<>>
         /\ calls' = r.calls
         /\ sn' = NoSn
         /\ UNCHANGED << mainData, exitCode, apiCallCount >>
    ELSE /\ calls' = r.calls
         /\ MainAfterSearch(allPlaces \o r.value)

\* the top-level searchNearbyRecursive call has returned r.value
TopCallReturned(r) ==
  IF entry # "main"
    THEN /\ ret' = r.value
         /\ pc' = "returned"
         /\ stack' = <<>>
         /\ calls' = r.calls
         /\ sn' = NoSn
         /\ UNCHANGED << mainData, exitCode, apiCallCount >>
  ELSE IF typeIdx < Len(PLACE_TYPES)
    THEN /\ allPlaces' = allPlaces \o r.value
         /\ typeIdx' = typeIdx + 1
         /\ IssueSearch(StartCall(<<>>, r.calls, origin, RADIUS_METERS,
                                  PLACE_TYPES[typeIdx + 1], Dy(DefaultMinRadius), 0))
         /\ UNCHANGED << uniquePlaces, aggregated, detailIdx, detailedPlaces, disk,
                         exitCode, ret >>
    ELSE /\ calls' = r.calls
         /\ MainAfterSearch(allPlaces \o r.value)

\* searchNearby returns `places` to the innermost searchNearbyRecursive
SearchNearbyReturns(places) ==
  /\ LET r == SearchReturned(stack, calls, places)
     IN  IF r.done
           THEN TopCallReturned(r)
           ELSE /\ IssueSearch(r)
                /\ UNCHANGED << mainData, exitCode, ret >>
  /\ UNCHANGED errorMessage

\* the error caught inside searchNearby, the pages fetched so far returned
SearchNearbySwallows(places) == SearchNearbyReturns(places)

\* searchNearby throws: no searchNearbyRecursive on the stack catches, main
\* has no try either, and main().catch prints the message and exits with 1
SearchNearbyThrows(places) ==
  /\ IF entry = "main"
       THEN Exit1("Nearby search failed")
       ELSE /\ pc' = "thrown"
            /\ errorMessage' = "Nearby search failed"
            /\ stack' = <<>>
            /\ sn' = NoSn
            /\ UNCHANGED exitCode
  /\ UNCHANGED << mainData, apiCallCount, calls, ret >>

\* a response with response.ok
SearchResponseOk ==
  /\ pc = "await_search"
  /\ responses' = [responses EXCEPT !.last = "search_ok"]
  /\ LET ids    == PageIds(world, sn, sn.nextPageToken)
         token  == NextToken(world, paging, sn, sn.nextPageToken)
         places == PushPlaces(sn.places, world, ids, sn.type)
     IN  IF token # 0
           THEN /\ sn' = [sn EXCEPT !.places = places, !.nextPageToken = token]
                /\ sleepMs' = sleep(2000)
                /\ pc' = "sleep_page"
                /\ UNCHANGED << mainData, stack, exitCode, errorMessage, apiCallCount,
                                calls, ret >>
           ELSE /\ SearchNearbyReturns(places)
                /\ UNCHANGED sleepMs
  /\ UNCHANGED << inputs, ringData, RADIUS_METERS, origin, excludeList >>

\* a response without response.ok
SearchResponseError ==
  /\ pc = "await_search"
  /\ responses' = [responses EXCEPT !.last = "search_error"]
  /\ SearchNearbyThrows(sn.places)
  /\ UNCHANGED << inputs, ringData, RADIUS_METERS, origin, excludeList, sleepMs >>

\* the request for a further page sent without being counted
PageSleepDoneUncounted ==
  /\ pc = "sleep_page"
  /\ sleepMs' = 0
  /\ pc' = "await_search"
  /\ UNCHANGED << inputs, ringData, mainData, RADIUS_METERS, origin, excludeList, stack, sn,
                  exitCode, errorMessage, apiCallCount, calls, responses, ret >>

\* sleep(2000) is over: the request that carries body.pageToken
PageSleepDone ==
  /\ pc = "sleep_page"
  /\ sleepMs' = 0
  /\ apiCallCount' = [apiCallCount EXCEPT !.placesSearch = @ + 1]
  /\ pc' = "await_search"
  /\ UNCHANGED << inputs, ringData, mainData, RADIUS_METERS, origin, excludeList, stack, sn,
                  exitCode, errorMessage, calls, responses, ret >>

(***************************************************************************)
(* main, step 5: details                                                   *)
(***************************************************************************)
\* the details response: response.ok or an HTTP error status
DetailsResponse ==
  /\ pc = "await_details"
  /\ LET place   == uniquePlaces[detailIdx]
         ok      == place.place_id \notin detailsDown
         details == getPlaceDetails(ok, DetailsData(place.place_id))
     IN  /\ detailedPlaces' = Append(detailedPlaces, PlaceDetailed(place, details, origin))
         /\ responses' = [responses EXCEPT
                            !.last = IF ok THEN "details_ok" ELSE "details_error"]
  /\ sleepMs' = sleep(100)
  /\ pc' = "sleep_details"
  /\ UNCHANGED << inputs, ringData, RADIUS_METERS, origin, excludeList, typeIdx, stack, sn,
                  allPlaces, uniquePlaces, aggregated, detailIdx, disk, exitCode,
                  errorMessage, apiCallCount, calls, ret >>

\* fetch rejects (no response at all): the await in getPlaceDetails throws
DetailsRejected ==
  /\ pc = "await_details"
  /\ responses' = [responses EXCEPT !.last = "details_rejected"]
  /\ Exit1("fetch failed")
  /\ UNCHANGED << inputs, ringData, mainData, RADIUS_METERS, origin, excludeList, apiCallCount,
                  calls, sleepMs, ret >>

\* sleep(100) is over: the next details request, or steps 6 and 7
DetailsSleepDone ==
  /\ pc = "sleep_details"
  /\ sleepMs' = 0
  /\ IF detailIdx < Len(uniquePlaces)
       THEN /\ detailIdx' = detailIdx + 1
            /\ apiCallCount' = [apiCallCount EXCEPT !.placesDetails = @ + 1]
            /\ pc' = "await_details"
            /\ UNCHANGED << detailedPlaces, disk, exitCode >>
       ELSE /\ Finish(detailedPlaces)
            /\ UNCHANGED << detailIdx, apiCallCount >>
  /\ UNCHANGED << inputs, ringData, RADIUS_METERS, origin, excludeList, typeIdx, stack, sn,
                  allPlaces, uniquePlaces, aggregated, errorMessage, calls, responses,
                  ret >>

Next ==
  \/ MainStart
  \/ GeocodeResponse
  \/ SearchResponseOk
  \/ SearchResponseError
  \/ PageSleepDone
  \/ DetailsResponse
  \/ DetailsRejected
  \/ DetailsSleepDone

Spec == Init /\ [][Next]_vars

(***************************************************************************)
(* searchNearbyRecursive(center, radius, type, minRadius) run alone        *)
(***************************************************************************)
SearchRadii == {250, 1000, 1001, 2000}

SearchMinRadii == {125, 500, 3000}

InitSearch ==
  /\ InitCommon
  /\ pc = "await_search"
  /\ entry = "searchNearbyRecursive"
  /\ radiusArg = <<>>
  /\ disk = [f \in {excludeFile, outputFile} |-> Absent]
  /\ detailsDown = {}
  /\ typeIdx = 0
  /\ apiCallCount = [NoCalls EXCEPT !.placesSearch = 1]
  /\ weekdayTextArg = None(<<>>)
  /\ \E center \in Origins, radius \in SearchRadii, minRadius \in SearchMinRadii,
        t \in 1..Len(PLACE_TYPES) :
       LET r == StartCall(<<>>, <<>>, center, Dy(radius), PLACE_TYPES[t],
                          Dy(minRadius), 0)
       IN  /\ RADIUS_METERS = Dy(radius)
           /\ stack = r.stack
           /\ calls = r.calls
           /\ sn = NewSearch(Top(r.stack))

NextSearch ==
  \/ SearchResponseOk
  \/ SearchResponseError
  \/ PageSleepDone

SpecSearch == InitSearch /\ [][NextSearch]_vars

(***************************************************************************)
(* parseOpeningHours(weekdayText) run alone                                *)
(***************************************************************************)
\* the longest weekdayDescriptions tried
MaxLines == 3

\* the lines tried
ParseLinesTried ==
  { MondayLine, SundayLine, ClosedLine, FundayLine, MondayAgainLine, NoRestLine,
    SpacesLine, IndentedLine }

\* the sequences over S of length n
RECURSIVE SeqsOfLen(_, _)
SeqsOfLen(S, n) ==
  IF n = 0 THEN {<<>>}
  ELSE {Append(q, x) : q \in SeqsOfLen(S, n - 1), x \in S}

\* undefined, or a list of at most MaxLines lines
WeekdayTexts ==
  {None(<<>>)} \cup {Some(q) : q \in UNION {SeqsOfLen(ParseLinesTried, n) : n \in 0..MaxLines}}

InitParse ==
  /\ pc = "call"
  /\ entry = "parseOpeningHours"
  /\ weekdayTextArg \in WeekdayTexts
  /\ ret = <<>>
  /\ world = "sparse"
  /\ paging = FALSE
  /\ radiusArg = <<>>
  /\ RADIUS_METERS = Dy(0)
  /\ disk = [f \in {excludeFile, outputFile} |-> Absent]
  /\ detailsDown = {}
  /\ origin = Loc(0, 0)
  /\ excludeList = {}
  /\ typeIdx = 0
  /\ stack = <<>>
  /\ sn = NoSn
  /\ allPlaces = <<>>
  /\ uniquePlaces = <<>>
  /\ aggregated = <<>>
  /\ detailIdx = 0
  /\ detailedPlaces = <<>>
  /\ exitCode = -1
  /\ errorMessage = ""
  /\ apiCallCount = NoCalls
  /\ calls = <<>>
  /\ responses = NoResponses
  /\ sleepMs = 0
  /\ hitLimitTypes = <<>>
  /\ searchPoints = <<>>
  /\ hitIdx = 0
  /\ pointIdx = 0
  /\ searches = <<>>

\* the call parseOpeningHours(weekdayText) and its return
ParseOpeningHoursCall ==
  /\ pc = "call"
  /\ entry = "parseOpeningHours"
  /\ ret' = parseOpeningHours(weekdayTextArg)
  /\ pc' = "returned"
  /\ UNCHANGED << inputs, ringData, mainData, RADIUS_METERS, origin, excludeList, stack, sn,
                  exitCode, errorMessage, apiCallCount, calls, responses, sleepMs >>

SpecParse == InitParse /\ [][ParseOpeningHoursCall]_vars

(***************************************************************************)
(* The fixed-ring script (src/fetch-places.ts, lines 1-419)                *)
(*                                                                         *)
(* Math.cos and Math.sin are computed in fixed point, 1 being 10000: the   *)
(* angle is brought into the first quadrant and the Taylor series summed   *)
(* up to the term x^8 (x^9), which is exact to a few units of the last     *)
(* place.  A search point is then rounded to whole metres, so a point of   *)
(* the model lies within 2 m of the point the script computes.             *)
(***************************************************************************)
\* Math.PI
PiFx == 31416

\* a * b of two fixed-point numbers >= 0
MulFx(a, b) == (a * b) \div 10000

\* Math.cos(x), 0 <= x <= PI / 2
CosSeries(x) ==
  LET x2 == MulFx(x, x)
      t1 == x2 \div 2
      t2 == MulFx(t1, x2) \div 12
      t3 == MulFx(t2, x2) \div 30
      t4 == MulFx(t3, x2) \div 56
  IN  10000 - t1 + t2 - t3 + t4

\* Math.sin(x), 0 <= x <= PI / 2
SinSeries(x) ==
  LET x2 == MulFx(x, x)
      t1 == MulFx(x, x2) \div 6
      t2 == MulFx(t1, x2) \div 20
      t3 == MulFx(t2, x2) \div 42
      t4 == MulFx(t3, x2) \div 72
  IN  x - t1 + t2 - t3 + t4

\* Math.cos(angle), 0 <= angle < 2 * PI
CosFx(angle) ==
  IF 2 * angle <= PiFx THEN CosSeries(angle)
  ELSE IF angle <= PiFx THEN 0 - CosSeries(PiFx - angle)
  ELSE IF 2 * angle <= 3 * PiFx THEN 0 - CosSeries(angle - PiFx)
  ELSE CosSeries(2 * PiFx - angle)

\* Math.sin(angle), 0 <= angle < 2 * PI
SinFx(angle) ==
  IF 2 * angle <= PiFx THEN SinSeries(angle)
  ELSE IF angle <= PiFx THEN SinSeries(PiFx - angle)
  ELSE IF 2 * angle <= 3 * PiFx THEN 0 - SinSeries(angle - PiFx)
  ELSE 0 - SinSeries(2 * PiFx - angle)

\* metres * (a fixed-point number), to the nearest metre
ScaleFx(metres, f) == (2 * metres * f + 10000) \div 20000

\* getSearchPoints: const MAX_SEARCH_RADIUS = 1000
MAX_SEARCH_RADIUS == 1000

\* ringRadius = ring * MAX_SEARCH_RADIUS * 0.8
RingRadius(ring) == (ring * MAX_SEARCH_RADIUS * 8) \div 10

\* pointsInRing = Math.max(6, Math.ceil(2 * Math.PI * ring * 1.5))
PointsInRing(ring) == MaxOf(6, (3 * PiFx * ring + 9999) \div 10000)

\* the i-th point of the ring, i counted from 0
RingPoint(center, ring, i) ==
  LET angle == (2 * PiFx * i) \div PointsInRing(ring)
  IN  [location |->
         [lat |-> DyAdd(center.lat, Dy(ScaleFx(RingRadius(ring), CosFx(angle)))),
          lng |-> DyAdd(center.lng, Dy(ScaleFx(RingRadius(ring), SinFx(angle))))],
       radius |-> Dy(MAX_SEARCH_RADIUS)]

\* the points of the rings ring, ring + 1, ..., rings - 1
RECURSIVE RingsFrom(_, _, _)
RingsFrom(center, ring, rings) ==
  IF ring >= rings THEN <<>>
  ELSE [i \in 1..PointsInRing(ring) |-> RingPoint(center, ring, i - 1)]
         \o RingsFrom(center, ring + 1, rings)

\* getSearchPoints(center, radius), radius a whole number of metres
getSearchPoints(center, radius) ==
  IF DyLeq(radius, Dy(MAX_SEARCH_RADIUS))
    THEN << [location |-> center, radius |-> radius] >>
    ELSE LET rings == (radius.n + MAX_SEARCH_RADIUS - 1) \div MAX_SEARCH_RADIUS
         IN  << [location |-> center, radius |-> Dy(MAX_SEARCH_RADIUS)] >>
               \o RingsFrom(center, 1, rings)

(***************************************************************************)
(* getSearchPoints(center, radius) run alone: origin holds center,         *)
(* RADIUS_METERS holds radius                                              *)
(***************************************************************************)
\* the largest radius tried, in units of 100 m
MaxHectometres == 30

InitPoints ==
  /\ pc = "call"
  /\ entry = "getSearchPoints"
  /\ origin \in Origins
  /\ \E h \in 1..MaxHectometres : RADIUS_METERS = Dy(100 * h)
  /\ ret = <<>>
  /\ weekdayTextArg = None(<<>>)
  /\ world = "sparse"
  /\ paging = FALSE
  /\ radiusArg = <<>>
  /\ disk = [f \in {excludeFile, outputFile} |-> Absent]
  /\ detailsDown = {}
  /\ excludeList = {}
  /\ typeIdx = 0
  /\ stack = <<>>
  /\ sn = NoSn
  /\ allPlaces = <<>>
  /\ uniquePlaces = <<>>
  /\ aggregated = <<>>
  /\ detailIdx = 0
  /\ detailedPlaces = <<>>
  /\ exitCode = -1
  /\ errorMessage = ""
  /\ apiCallCount = NoCalls
  /\ calls = <<>>
  /\ responses = NoResponses
  /\ sleepMs = 0
  /\ hitLimitTypes = <<>>
  /\ searchPoints = <<>>
  /\ hitIdx = 0
  /\ pointIdx = 0
  /\ searches = <<>>

\* the call getSearchPoints(center, radius) and its return
GetSearchPointsCall ==
  /\ pc = "call"
  /\ entry = "getSearchPoints"
  /\ ret' = getSearchPoints(origin, RADIUS_METERS)
  /\ pc' = "returned"
  /\ UNCHANGED << inputs, ringData, mainData, RADIUS_METERS, origin, excludeList, stack, sn,
                  exitCode, errorMessage, apiCallCount, calls, responses, sleepMs >>

SpecPoints == InitPoints /\ [][GetSearchPointsCall]_vars

(***************************************************************************)
(* The debug-map script (src/unnamed/part_000)                             *)
(***************************************************************************)
\* Math.round(radius * 0.75) of a dyadic radius: floor(3 * radius / 4 + 1 / 2)
RoundThreeQuarters(radius) == (6 * radius.n + Pow2(radius.e + 2)) \div Pow2(radius.e + 3)

\* getQuadrantCenters(center, radius): the circles drawn on the debug map
getQuadrantCenters(center, radius) ==
  LET offsetDistance == DyHalf(radius)
      quadrantRadius == Dy(RoundThreeQuarters(radius))
      offsetLat      == offsetDistance
      offsetLng      == offsetDistance
  IN  << [name |-> "NW", lat |-> DyAdd(center.lat, offsetLat),
          lng |-> DySub(center.lng, offsetLng), radius |-> quadrantRadius],
         [name |-> "NE", lat |-> DyAdd(center.lat, offsetLat),
          lng |-> DyAdd(center.lng, offsetLng), radius |-> quadrantRadius],
         [name |-> "SW", lat |-> DySub(center.lat, offsetLat),
          lng |-> DySub(center.lng, offsetLng), radius |-> quadrantRadius],
         [name |-> "SE", lat |-> DySub(center.lat, offsetLat),
          lng |-> DyAdd(center.lng, offsetLng), radius |-> quadrantRadius] >>

(***************************************************************************)
(* main of the fixed-ring script (lines 274-414).  geocodeAddress,         *)
(* searchNearby, getPlaceDetails, loadExcludeList and main's steps 4 to 6  *)
(* read as in the recursive script, whose definitions are used.            *)
(***************************************************************************)
\* const RADIUS_METERS = 1000
FixedRadiusMeters == 1000

InitFixed ==
  /\ InitCommon
  /\ pc = "start"
  /\ entry = "fixedMain"
  /\ radiusArg = <<>>
  /\ \E env \in Environments :
       /\ disk = [f \in {excludeFile, outputFile} |->
                    IF f = excludeFile THEN env.file ELSE Absent]
       /\ detailsDown = env.down
  /\ RADIUS_METERS = Dy(FixedRadiusMeters)
  /\ typeIdx = 0
  /\ stack = <<>>
  /\ sn = NoSn
  /\ apiCallCount = NoCalls
  /\ calls = <<>>
  /\ weekdayTextArg = None(<<>>)

\* main up to the geocoding request
FixedMainStart ==
  /\ pc = "start"
  /\ entry = "fixedMain"
  /\ apiCallCount' = [apiCallCount EXCEPT !.geocoding = @ + 1]
  /\ pc' = "await_geocode"
  /\ UNCHANGED << inputs, ringData, mainData, RADIUS_METERS, origin, excludeList,
                  stack, sn, exitCode, errorMessage, calls, responses, sleepMs, ret >>

\* searchNearby(location, type, radius) up to its first request
IssueFixedSearch(location, type, radius) ==
  /\ sn' = [location |-> location, type |-> type, radius |-> radius,
            places |-> <<>>, nextPageToken |-> 0]
  /\ searches' = Append(searches, [type |-> type, location |-> location,
                                   radius |-> radius])
  /\ apiCallCount' = [apiCallCount EXCEPT !.placesSearch = @ + 1]
  /\ pc' = "await_search"

\* the geocoding response, then step 2: the first category's search
FixedGeocodeResponse ==
  /\ pc = "await_geocode"
  /\ entry = "fixedMain"
  /\ \E status \in {"OK", "ZERO_RESULTS", "REQUEST_DENIED"} :
     \E results \in {<<>>} \cup {<<o>> : o \in Origins} :
       /\ responses' = [last |-> "geocode",
                        geocode |-> [answered |-> TRUE, status |-> status,
                                     n |-> Len(results),
                                     location |-> IF results = <<>> THEN Loc(0, 0)
                                                  ELSE results[1]]]
       /\ IF GeocodeFails(status, results)
            THEN /\ Exit1("Geocoding failed")
                 /\ UNCHANGED << origin, excludeList, typeIdx, apiCallCount, searches >>
            ELSE /\ origin' = results[1]
                 /\ excludeList' = loadExcludeList(disk[excludeFile])
                 /\ typeIdx' = 1
                 /\ IssueFixedSearch(results[1], PLACE_TYPES[1], RADIUS_METERS)
                 /\ UNCHANGED << exitCode, errorMessage, stack >>
  /\ UNCHANGED << inputs, RADIUS_METERS, allPlaces, uniquePlaces, aggregated,
                  detailIdx, detailedPlaces, disk, calls, sleepMs, ret,
                  hitLimitTypes, searchPoints, hitIdx, pointIdx >>

\* the test of step 3 without its radius part
SubdivideNeededAnyRadius(hit, radius) == hit # <<>>

\* `hitLimitTypes.size > 0 && RADIUS_METERS > 1000`
SubdivideNeeded(hit, radius) == hit # <<>> /\ DyLess(Dy(1000), radius)

\* the splice loop: every place whose types include `type` removed
RemoveType(places, type) ==
  SelectSeq(places, LAMBDA p : ~(\E k \in 1..Len(p.types) : p.types[k] = type))

\* searchNearby returns `places` to main: to the loop of step 2, or to the
\* loop over the search points of step 3
FixedSearchReturns(places) ==
  LET type  == sn.type
      all   == allPlaces \o places
      hit   == IF pointIdx = 0 /\ Len(places) >= 20
                 THEN Append(hitLimitTypes, type) ELSE hitLimitTypes
  IN  /\ hitLimitTypes' = hit
      /\ IF pointIdx = 0 /\ typeIdx < Len(PLACE_TYPES)
           THEN \* step 2, next category
                /\ allPlaces' = all
                /\ typeIdx' = typeIdx + 1
                /\ IssueFixedSearch(origin, PLACE_TYPES[typeIdx + 1], RADIUS_METERS)
                /\ UNCHANGED << searchPoints, hitIdx, pointIdx, uniquePlaces, aggregated,
                                detailIdx, detailedPlaces, disk, exitCode, stack, ret >>
         ELSE IF pointIdx = 0 /\ SubdivideNeeded(hit, RADIUS_METERS)
           THEN \* step 3 entered: the first type's results removed, first point
                LET points == getSearchPoints(origin, RADIUS_METERS)
                IN  /\ searchPoints' = points
                    /\ hitIdx' = 1
                    /\ pointIdx' = 1
                    /\ allPlaces' = RemoveType(all, hit[1])
                    /\ IssueFixedSearch(points[1].location, hit[1], points[1].radius)
                    /\ UNCHANGED << typeIdx, uniquePlaces, aggregated, detailIdx,
                                    detailedPlaces, disk, exitCode, stack, ret >>
         ELSE IF pointIdx # 0 /\ pointIdx < Len(searchPoints)
           THEN \* step 3, next point
                /\ allPlaces' = all
                /\ pointIdx' = pointIdx + 1
                /\ IssueFixedSearch(searchPoints[pointIdx + 1].location, type,
                                    searchPoints[pointIdx + 1].radius)
                /\ UNCHANGED << typeIdx, searchPoints, hitIdx, uniquePlaces, aggregated,
                                detailIdx, detailedPlaces, disk, exitCode, stack, ret >>
         ELSE IF pointIdx # 0 /\ hitIdx < Len(hit)
           THEN \* step 3, next type: its results removed, first point
                /\ allPlaces' = RemoveType(all, hit[hitIdx + 1])
                /\ hitIdx' = hitIdx + 1
                /\ pointIdx' = 1
                /\ IssueFixedSearch(searchPoints[1].location, hit[hitIdx + 1],
                                    searchPoints[1].radius)
                /\ UNCHANGED << typeIdx, searchPoints, uniquePlaces, aggregated,
                                detailIdx, detailedPlaces, disk, exitCode, stack, ret >>
         ELSE \* steps 4 and 5, then the first details request
              /\ MainAfterSearch(all)
              /\ UNCHANGED << searchPoints, hitIdx, pointIdx, searches >>

\* a response with response.ok
FixedSearchResponseOk ==
  /\ pc = "await_search"
  /\ entry = "fixedMain"
  /\ responses' = [responses EXCEPT !.last = "search_ok"]
  /\ LET ids    == PageIds(world, sn, sn.nextPageToken)
         token  == NextToken(world, paging, sn, sn.nextPageToken)
         places == PushPlaces(sn.places, world, ids, sn.type)
     IN  IF token # 0
           THEN /\ sn' = [sn EXCEPT !.places = places, !.nextPageToken = token]
                /\ sleepMs' = sleep(2000)
                /\ pc' = "sleep_page"
                /\ UNCHANGED << mainData, ringData, stack, exitCode, apiCallCount, ret >>
           ELSE /\ FixedSearchReturns(places)
                /\ UNCHANGED sleepMs
  /\ UNCHANGED << inputs, RADIUS_METERS, origin, excludeList, errorMessage, calls >>

\* a response without response.ok: searchNearby throws, main().catch exits
FixedSearchResponseError ==
  /\ pc = "await_search"
  /\ entry = "fixedMain"
  /\ responses' = [responses EXCEPT !.last = "search_error"]
  /\ Exit1("Nearby search failed")
  /\ UNCHANGED << inputs, ringData, mainData, RADIUS_METERS, origin, excludeList,
                  apiCallCount, calls, sleepMs, ret >>

NextFixed ==
  \/ FixedMainStart
  \/ FixedGeocodeResponse
  \/ FixedSearchResponseOk
  \/ FixedSearchResponseError
  \/ PageSleepDone
  \/ DetailsResponse
  \/ DetailsRejected
  \/ DetailsSleepDone

SpecFixed == InitFixed /\ [][NextFixed]_vars

(***************************************************************************)
(* Properties                                                              *)
(***************************************************************************)
IdSet(seq) == {seq[k].place_id : k \in 1..Len(seq)}

\* call j is call i or one of its descendants
RECURSIVE IsUnder(_, _)
IsUnder(j, i) == j = i \/ (calls[j].parent # 0 /\ IsUnder(calls[j].parent, i))

\* what the provider holds for call c, and whether c's answer fell short of it
Holds(c) == Matching(world, c.center, c.radius, c.type)

Truncated(c) == Len(c.results) < Len(Holds(c))

\* C1 (as claimed): with a provider that answers with the places of the
\* category inside the circle, cut at 20, a top-level searchNearbyRecursive
\* call none of whose leaf calls was cut returns every place of the category
\* within radius of center.
C1_Coverage ==
  \A i \in 1..Len(calls) :
    ( /\ ~paging
      /\ calls[i].parent = 0
      /\ calls[i].returned
      /\ \A j \in 1..Len(calls) :
           (IsUnder(j, i) /\ calls[j].kids = <<>>) => ~Truncated(calls[j]) )
    => \A k \in 1..Len(Holds(calls[i])) : Holds(calls[i])[k] \in IdSet(calls[i].value)

\* a * (r / 2)
HalfSteps(a, r) == DyNorm([n |-> a * r.n, e |-> r.e + 1])

\* the points center + (a, b) * radius / 2, a and b in -2..2
SamplePoints(center, radius) ==
  { [lat |-> DyAdd(center.lat, HalfSteps(a, radius)),
     lng |-> DyAdd(center.lng, HalfSteps(b, radius))] : a \in -2..2, b \in -2..2 }

\* C2 (as claimed): at every subdivision step, every point of the parent
\* circle, the parent center included, lies in one of the four child circles.
C2_QuadrantCovering ==
  \A k \in 1..Len(stack) :
    stack[k].quadrants # <<>> =>
      \A p \in SamplePoints(stack[k].center, stack[k].radius) :
        InCircle(p, stack[k].center, stack[k].radius) =>
          \E q \in 1..Len(stack[k].quadrants) :
            InCircle(p, [lat |-> stack[k].quadrants[q].lat,
                         lng |-> stack[k].quadrants[q].lng],
                     NewRadius(stack[k].radius))

\* the least d >= from with radius <= minRadius * 2^d
RECURSIVE CeilLog2Ratio(_, _, _)
CeilLog2Ratio(radius, minRadius, from) ==
  IF DyLeq(radius, [n |-> minRadius.n * Pow2(from), e |-> minRadius.e]) THEN from
  ELSE CeilLog2Ratio(radius, minRadius, from + 1)

RECURSIVE Pow4(_)
Pow4(k) == IF k = 0 THEN 1 ELSE 4 * Pow4(k - 1)

\* the size of the complete 4-ary tree of depth d
TreeSize(d) == (Pow4(d + 1) - 1) \div 3

CallsWithinTree ==
  Len(calls) <= TreeSize(CeilLog2Ratio(calls[1].radius, calls[1].minRadius, 0))

Ended == pc \in {"returned", "thrown"}

\* the pages one searchNearby can be given by this provider
PagesPerSearch == (NumPlaces \div MaxResultCount) + 1

\* requests made so far, refined by the position within searchNearby
Progress ==
  3 * apiCallCount.placesSearch
    + (IF pc = "sleep_page" THEN 1 ELSE IF Ended THEN 2 ELSE 0)

ProgressBound ==
  3 * PagesPerSearch * TreeSize(CeilLog2Ratio(calls[1].radius, calls[1].minRadius, 0)) + 2

\* C3: searchNearbyRecursive(center, radius, type, minRadius) terminates when
\* every request is answered (every step adds to a bounded count of progress),
\* and it is invoked at most (4^(d+1) - 1) / 3 times,
\* d = max(0, ceil(log2(radius / minRadius))).
C3_Termination ==
  [][ /\ Progress' > Progress
      /\ Progress' <= ProgressBound'
      /\ CallsWithinTree' ]_vars

\* two levels of subdivision were made and the call returned
C3_Witness ==
  /\ pc = "returned"
  /\ \E i \in 1..Len(calls) : calls[i].depth = 2
  /\ Len(calls) >= 9

\* C4: an invocation whose search returned fewer than 20 results, or whose
\* radius is at most minRadius whatever the count, returns exactly the result
\* list of that search and makes no recursive call.
C4_LeafCondition ==
  \A i \in 1..Len(calls) :
    ( /\ calls[i].searched
      /\ Len(calls[i].results) < 20 \/ DyLeq(calls[i].radius, calls[i].minRadius) )
    => /\ calls[i].returned
       /\ calls[i].value = calls[i].results
       /\ calls[i].kids = <<>>

\* a call at the floor that got a full page and returned it as it was
C4_Witness ==
  \E i \in 1..Len(calls) :
    /\ calls[i].returned
    /\ Len(calls[i].results) >= 20
    /\ DyLeq(calls[i].radius, calls[i].minRadius)
    /\ calls[i].parent # 0
    /\ calls[i].value = calls[i].results

RECURSIVE ConcatValues(_)
ConcatValues(kids) ==
  IF kids = <<>> THEN <<>> ELSE calls[Head(kids)].value \o ConcatValues(Tail(kids))

\* child call c is the quadrant `name` of parent call f
InQuadrant(c, f, name) ==
  /\ IF name \in {"NW", "NE"} THEN DyLess(f.center.lat, c.center.lat)
                               ELSE DyLess(c.center.lat, f.center.lat)
  /\ IF name \in {"NE", "SE"} THEN DyLess(f.center.lng, c.center.lng)
                               ELSE DyLess(c.center.lng, f.center.lng)

QuadrantNames == <<"NW", "NE", "SW", "SE">>

\* C5: an invocation whose search returned at least 20 results with
\* radius > minRadius calls itself for the quadrants NW, NE, SW, SE in this
\* order, each with radius / 2, the same type, the same minRadius and
\* depth + 1; when it returns it has made exactly four such calls and returns
\* the concatenation of their values, its own results not being part of it.
C5_Subdivision ==
  \A i \in 1..Len(calls) :
    ( /\ calls[i].searched
      /\ Len(calls[i].results) >= 20
      /\ ~DyLeq(calls[i].radius, calls[i].minRadius) )
    => /\ Len(calls[i].kids) \in 1..4
       /\ \A k \in 1..Len(calls[i].kids) :
            LET c == calls[calls[i].kids[k]]
            IN  /\ c.parent = i
                /\ DyAdd(c.radius, c.radius) = calls[i].radius
                /\ c.type = calls[i].type
                /\ c.minRadius = calls[i].minRadius
                /\ c.depth = calls[i].depth + 1
                /\ InQuadrant(c, calls[i], QuadrantNames[k])
                /\ k < Len(calls[i].kids) => c.returned
       /\ calls[i].returned =>
            /\ Len(calls[i].kids) = 4
            /\ calls[i].value = ConcatValues(calls[i].kids)

\* radius 1000, minRadius 500, a first search with 20 results or more: four
\* calls at radius 500 were made and their values returned
C5_Witness ==
  \E i \in 1..Len(calls) :
    /\ calls[i].returned
    /\ calls[i].radius = Dy(1000)
    /\ calls[i].minRadius = Dy(500)
    /\ Len(calls[i].results) >= 20
    /\ Len(calls[i].kids) = 4
    /\ \A k \in 1..4 : calls[calls[i].kids[k]].radius = Dy(500)
    /\ calls[i].value # <<>>
    /\ calls[i].value # calls[i].results

\* C6: a failed area-search request, at any depth and for any category, ends
\* the run: the error leaves every searchNearbyRecursive on the stack, the
\* step that receives it issues no request, adds nothing to allPlaces, writes
\* no file and exits with code 1, and no step follows it.
C6_FailFast ==
  [][ /\ responses.last # "search_error"
      /\ responses'.last = "search_error" =>
           /\ pc' = "exited"
           /\ exitCode' = 1
           /\ stack' = <<>>
           /\ apiCallCount' = apiCallCount
           /\ apiCallCount'.placesDetails = 0
           /\ allPlaces' = allPlaces
           /\ uniquePlaces' = <<>>
           /\ disk' = disk
           /\ disk'[outputFile] = Absent ]_vars

\* the request of a call below the top level failed, for the second category
\* or a later one
C6_Witness ==
  /\ responses.last = "search_error"
  /\ exitCode = 1
  /\ typeIdx >= 2
  /\ allPlaces # <<>>
  /\ \E i \in 1..Len(calls) :
       calls[i].depth >= 1 /\ ~calls[i].searched /\ calls[calls[i].parent].searched

\* C7: geocodeAddress raises exactly when the status is not "OK" or there is
\* no result; when it raises, the run makes no area-search request and no
\* details request, writes no file and exits with code 1.
C7_GeocodeFatal ==
  responses.geocode.answered =>
    LET bad == responses.geocode.status # "OK" \/ responses.geocode.n = 0
    IN  /\ bad <=> errorMessage = "Geocoding failed"
        /\ bad => /\ pc = "exited"
                  /\ exitCode = 1
                  /\ apiCallCount.placesSearch = 0
                  /\ apiCallCount.placesDetails = 0
                  /\ calls = <<>>
                  /\ disk[outputFile] = Absent
        /\ ~bad => apiCallCount.placesSearch >= 1

\* the geocoder said "OK" and gave no result
C7_Witness ==
  /\ responses.geocode.answered
  /\ responses.geocode.status = "OK"
  /\ responses.geocode.n = 0
  /\ exitCode = 1
  /\ errorMessage = "Geocoding failed"

\* step 3 of main has run
Aggregated ==
  \/ pc \in {"await_details", "sleep_details"}
  \/ pc = "exited" /\ (exitCode = 0 \/ responses.last = "details_rejected")

\* the types, as a set, of all stubs of allPlaces with this id
TypesOfId(id) ==
  UNION { SetOf(allPlaces[k].types) : k \in {j \in 1..Len(allPlaces) : allPlaces[j].place_id = id} }

\* the entries of two maps agree, types compared as sets
SameMap(m1, m2) ==
  /\ Len(m1) = Len(m2)
  /\ \A k \in 1..Len(m1) :
       /\ m1[k].place_id = m2[k].place_id
       /\ m1[k].name = m2[k].name
       /\ m1[k].location = m2[k].location
       /\ SetOf(m1[k].types) = SetOf(m2[k].types)

\* C8: the map built from allPlaces has exactly one entry for each place_id
\* of allPlaces, the types of an entry are, as a set, the union of the types
\* of all stubs with its id, and aggregating a stub once more leaves the map
\* as it is.
C8_DedupUnion ==
  Aggregated =>
    /\ IdSet(aggregated) = IdSet(allPlaces)
    /\ \A j, k \in 1..Len(aggregated) :
         aggregated[j].place_id = aggregated[k].place_id => j = k
    /\ \A k \in 1..Len(aggregated) :
         SetOf(aggregated[k].types) = TypesOfId(aggregated[k].place_id)
    /\ \A k \in 1..Len(allPlaces) :
         SameMap(DedupStep(aggregated, allPlaces[k]), aggregated)

\* an id was found several times with different types, and its entry holds
\* more types than any single stub
C8_Witness ==
  /\ Aggregated
  /\ Len(aggregated) < Len(allPlaces)
  /\ \E k \in 1..Len(aggregated) :
       \A j \in 1..Len(allPlaces) :
         allPlaces[j].place_id = aggregated[k].place_id =>
           Cardinality(SetOf(allPlaces[j].types)) < Cardinality(SetOf(aggregated[k].types))

\* four times the squared distance from the origin, in square metres
FourSquaredDistance(place) ==
  LET dy == place.location.lat.n - origin.lat.n
      dx == place.location.lng.n - origin.lng.n
  IN  4 * (dy * dy + dx * dx)

IsRetained(place) == \E j \in 1..Len(uniquePlaces) : uniquePlaces[j] = place

\* C9: an aggregated place is kept exactly when its rounded distance from the
\* origin is at most the radius and its id is not excluded; a kept place is
\* less than radius + 1/2 metres away, a place dropped for its distance at
\* least that far; every record of the output is within the radius and not
\* excluded.
C9_DistanceFilter ==
  Aggregated =>
    /\ \A k \in 1..Len(aggregated) :
         LET place == aggregated[k]
             limit == (2 * RADIUS_METERS.n + 1) * (2 * RADIUS_METERS.n + 1)
         IN  /\ IsRetained(place) <=>
                  /\ haversineDistance(origin, place.location) <= RADIUS_METERS.n
                  /\ place.place_id \notin excludeList
             /\ IsRetained(place) => FourSquaredDistance(place) < limit
             /\ (~IsRetained(place) /\ place.place_id \notin excludeList) =>
                  FourSquaredDistance(place) >= limit
    /\ IdSet(uniquePlaces) \subseteq IdSet(aggregated)
    /\ disk[outputFile].kind = "array" =>
         /\ IdSet(disk[outputFile].items) = IdSet(uniquePlaces)
         /\ \A k \in 1..Len(disk[outputFile].items) :
              /\ disk[outputFile].items[k].distance_meters <= RADIUS_METERS.n
              /\ disk[outputFile].items[k].place_id \notin excludeList

\* the output was written after a place at exactly the radius (rounded) was
\* kept, one was dropped for its distance and one for being excluded
C9_Witness ==
  /\ pc = "exited"
  /\ exitCode = 0
  /\ \E a, b, c \in 1..Len(aggregated) :
       /\ IsRetained(aggregated[a])
       /\ haversineDistance(origin, aggregated[a].location) = RADIUS_METERS.n
       /\ ~IsRetained(aggregated[b])
       /\ haversineDistance(origin, aggregated[b].location) > RADIUS_METERS.n
       /\ ~IsRetained(aggregated[c])
       /\ aggregated[c].place_id \in excludeList
       /\ haversineDistance(origin, aggregated[c].location) <= RADIUS_METERS.n

\* C10: once loadExcludeList has returned, no step adds an id to the
\* exclusion set or removes one, and no step writes exclude.json.
C10_ExcludeReadOnly ==
  [][ /\ disk'[excludeFile] = disk[excludeFile]
      /\ responses.geocode.answered => excludeList' = excludeList ]_vars

\* a run that excluded a place it had found, and wrote its output
C10_Witness ==
  /\ pc = "exited"
  /\ exitCode = 0
  /\ disk[outputFile].kind = "array"
  /\ \E k \in 1..Len(aggregated) : aggregated[k].place_id \in excludeList
  /\ disk[excludeFile].items = <<6, 1, 6, 99>>

\* the number of positions of list that hold x
Count(list, x) == Cardinality({j \in 1..Len(list) : list[j] = x})

\* the position of the record of place id in list
PositionOf(list, id) == CHOOSE j \in 1..Len(list) : list[j].place_id = id

\* C11: the list written to places.json is in non-decreasing order of
\* distance_meters, holds the enriched records, each as often as detailedPlaces
\* held it before the sort, and two records of equal distance_meters are in
\* the order of their places in the Map uniquePlaces.
C11_SortedOutput ==
  [][ disk'[outputFile] # disk[outputFile] =>
        LET out      == disk'[outputFile].items
            enriched == detailedPlaces
        IN  /\ disk'[outputFile].kind = "array"
            /\ Len(out) = Len(enriched)
            /\ Len(enriched) = Len(uniquePlaces)
            /\ \A k \in 1..Len(enriched) :
                 /\ enriched[k].place_id = uniquePlaces[k].place_id
                 /\ Count(out, enriched[k]) = Count(enriched, enriched[k])
            /\ \A j \in 1..Len(out) - 1 :
                 out[j].distance_meters <= out[j + 1].distance_meters
            /\ \A j, k \in 1..Len(out) :
                 (j < k /\ out[j].distance_meters = out[k].distance_meters) =>
                   PositionOf(uniquePlaces, out[j].place_id)
                     < PositionOf(uniquePlaces, out[k].place_id) ]_vars

\* an output with two records of equal distance, written from a list that was
\* not in order of distance
C11_Witness ==
  /\ pc = "exited"
  /\ exitCode = 0
  /\ disk[outputFile].kind = "array"
  /\ \E j \in 1..Len(disk[outputFile].items) - 1 :
       disk[outputFile].items[j].distance_meters
         = disk[outputFile].items[j + 1].distance_meters
  /\ \E j, k \in 1..Len(uniquePlaces) :
       /\ j < k
       /\ haversineDistance(origin, uniquePlaces[j].location)
            > haversineDistance(origin, uniquePlaces[k].location)

\* the enrichment fields of a record are the defaults
HasDefaults(r) ==
  /\ ~r.rating.has
  /\ r.review_count = 0
  /\ ~r.price_level.has
  /\ ~r.opening_hours.has
  /\ r.address = <<>>
  /\ r.google_maps_url = <<>>

\* a run that issued a details request and has ended wrote places.json with a
\* record for every place of uniquePlaces, defaults for the failed ones
EndsWithOutput ==
  (pc = "exited" /\ apiCallCount.placesDetails >= 1) =>
    /\ exitCode = 0
    /\ disk[outputFile].kind = "array"
    /\ IdSet(disk[outputFile].items) = IdSet(uniquePlaces)
    /\ \A k \in 1..Len(disk[outputFile].items) :
         disk[outputFile].items[k].place_id \in detailsDown =>
           HasDefaults(disk[outputFile].items[k])

\* C12 (as claimed): no failure of a details request, an HTTP error status or
\* a rejected fetch, ends the run: the place is emitted with the default
\* enrichment fields, the other places are enriched, places.json is written.
C12_DetailFailuresNonFatal ==
  /\ responses.last \in {"details_error", "details_rejected"} => exitCode # 1
  /\ EndsWithOutput

\* the provider's price enum, cheapest first
PriceEnum ==
  << "PRICE_LEVEL_FREE", "PRICE_LEVEL_INEXPENSIVE", "PRICE_LEVEL_MODERATE",
     "PRICE_LEVEL_EXPENSIVE", "PRICE_LEVEL_VERY_EXPENSIVE" >>

\* record r agrees with the details answer (ok, data) of its place
EnrichedFrom(r, ok, data) ==
  /\ IF ok /\ data.rating.has
       THEN r.rating.has /\ r.rating.v = data.rating.v
       ELSE ~r.rating.has
  /\ r.review_count = IF ok /\ data.userRatingCount.has THEN data.userRatingCount.v ELSE 0
  /\ r.address = IF ok /\ data.formattedAddress.has THEN data.formattedAddress.v ELSE <<>>
  /\ r.google_maps_url = IF ok /\ data.googleMapsUri.has THEN data.googleMapsUri.v ELSE <<>>
  /\ IF ok /\ data.priceLevel.has /\ \E n \in 1..Len(PriceEnum) : PriceEnum[n] = data.priceLevel.v
       THEN /\ r.price_level.has
            /\ r.price_level.v \in 0..4
            /\ PriceEnum[r.price_level.v + 1] = data.priceLevel.v
       ELSE ~r.price_level.has

\* C13: in every record of detailedPlaces and of the output, rating is null
\* when the details have none and the given rating otherwise, review_count is
\* 0 when the count is missing, address and google_maps_url are empty when
\* missing, and price_level is the number 0..4 of the provider's price enum,
\* or null when the enum is missing or not one of the five.
C13_EnrichmentDefaults ==
  /\ \A k \in 1..Len(detailedPlaces) :
       EnrichedFrom(detailedPlaces[k], detailedPlaces[k].place_id \notin detailsDown,
                    DetailsData(detailedPlaces[k].place_id))
  /\ disk[outputFile].kind = "array" =>
       \A k \in 1..Len(disk[outputFile].items) :
         LET r == disk[outputFile].items[k]
         IN  EnrichedFrom(r, r.place_id \notin detailsDown, DetailsData(r.place_id))

\* an output with a record without any details, one with a rating of 0 given
\* by the provider and the price level 0, one with an unknown price enum, and
\* one whose request failed
C13_Witness ==
  /\ pc = "exited"
  /\ exitCode = 0
  /\ \E a, b, c, d \in 1..Len(disk[outputFile].items) :
       LET r(k) == disk[outputFile].items[k]
       IN  /\ r(a).place_id \notin detailsDown /\ HasDefaults(r(a))
           /\ r(b).rating = Some(0) /\ r(b).price_level = Some(0)
           /\ r(c).place_id \notin detailsDown
           /\ DetailsData(r(c).place_id).priceLevel = Some("PRICE_LEVEL_UNSPECIFIED")
           /\ ~r(c).price_level.has /\ r(c).rating.has /\ r(c).review_count = 0
           /\ r(d).place_id \in detailsDown
           /\ DetailsData(r(d).place_id).rating.has /\ HasDefaults(r(d))

\* line has the form <word>:<spaces><rest> with a word of n >= 1 word
\* characters and at least one character behind the colon
HasForm(line, n) ==
  /\ n >= 1
  /\ Len(line) >= n + 2
  /\ line[n + 1] = ":"
  /\ \A i \in 1..n : IsWordChar(line[i])

\* the rest of such a line: what follows the colon and the spaces behind it,
\* or the last space when only spaces follow
RestOf(line, n) ==
  LET from == IF \E i \in (n + 2)..Len(line) : line[i] # " "
                THEN CHOOSE i \in (n + 2)..Len(line) :
                       /\ line[i] # " "
                       /\ \A j \in (n + 2)..(i - 1) : line[j] = " "
                ELSE Len(line)
  IN  SubSeq(line, from, Len(line))

\* line k of text names the weekday day
NamesDay(text, k, day) ==
  \E n \in 1..Len(text[k]) :
    HasForm(text[k], n) /\ toLowerCase(SubSeq(text[k], 1, n)) = day

\* C14: parseOpeningHours(weekdayText) returns null when weekdayText is
\* missing or empty or no line has the form '<word>: <rest>' with a weekday
\* name, lower-cased, as its word; otherwise a mapping whose keys are exactly
\* the weekdays named by such lines, each with the rest of the last line that
\* names it; the keys are weekday names and the mapping is never empty.
C14_ParseOpeningHours ==
  (entry = "parseOpeningHours" /\ pc = "returned") =>
    LET text  == IF weekdayTextArg.has THEN weekdayTextArg.v ELSE <<>>
        named == {d \in days : \E k \in 1..Len(text) : NamesDay(text, k, d)}
    IN  /\ ret.has <=> named # {}
        /\ ret.has =>
             /\ DOMAIN ret.v = named
             /\ DOMAIN ret.v \subseteq days
             /\ DOMAIN ret.v # {}
             /\ \A d \in named :
                  LET k == CHOOSE k \in 1..Len(text) :
                             /\ NamesDay(text, k, d)
                             /\ \A j \in (k + 1)..Len(text) : ~NamesDay(text, j, d)
                      n == CHOOSE n \in 1..Len(text[k]) : HasForm(text[k], n)
                  IN  ret.v[d] = RestOf(text[k], n)

\* a list with a weekday line, a line that is no weekday line and a second
\* line for the same weekday gave a mapping with that one key
C14_Witness ==
  /\ entry = "parseOpeningHours"
  /\ pc = "returned"
  /\ weekdayTextArg = Some(<<MondayLine, FundayLine, MondayAgainLine>>)
  /\ ret = Some([d \in {<<"m", "o", "n", "d", "a", "y">>} |-> <<"1", "0">>])

\* D is the distance of the record's location from origin, rounded to the
\* nearest metre: D - 1/2 <= d < D + 1/2
IsRoundedDistance(r, D) ==
  /\ D \in Nat
  /\ FourSquaredDistance(r) < (2 * D + 1) * (2 * D + 1)
  /\ D > 0 => (2 * D - 1) * (2 * D - 1) <= FourSquaredDistance(r)

\* C15: origin is the location the geocoder answered, and in every record of
\* detailedPlaces and of the output distance_meters is the distance between
\* origin and the record's location rounded to whole metres, at most the
\* requested radius.
C15_DerivedDistance ==
  /\ (detailedPlaces # <<>> \/ disk[outputFile].kind = "array") =>
       /\ responses.geocode.n >= 1
       /\ origin = responses.geocode.location
  /\ \A k \in 1..Len(detailedPlaces) :
       /\ IsRoundedDistance(detailedPlaces[k], detailedPlaces[k].distance_meters)
       /\ detailedPlaces[k].distance_meters <= RADIUS_METERS.n
  /\ disk[outputFile].kind = "array" =>
       \A k \in 1..Len(disk[outputFile].items) :
         LET r == disk[outputFile].items[k]
         IN  IsRoundedDistance(r, r.distance_meters) /\ r.distance_meters <= RADIUS_METERS.n

\* an output record of a place found by a quadrant search whose centre is at
\* another distance from the place than the origin, the origin not being the
\* point (0, 0)
C15_Witness ==
  /\ pc = "exited"
  /\ exitCode = 0
  /\ origin # Loc(0, 0)
  /\ \E k \in 1..Len(disk[outputFile].items), i \in 1..Len(calls) :
       LET r == disk[outputFile].items[k]
       IN  /\ calls[i].depth >= 1
           /\ r.place_id \in IdSet(calls[i].results)
           /\ haversineDistance(calls[i].center, r.location) # r.distance_meters
           /\ r.distance_meters > 0

\* the states in which a request is outstanding
Awaiting == {"await_geocode", "await_search", "await_details"}

\* the invocations that have not returned are exactly those on the stack, one
\* inside the other
OneBranchActive ==
  entry = "main" /\ pc \in {"await_search", "sleep_page"} =>
    /\ \A i \in 1..Len(calls) :
         ~calls[i].returned <=> \E k \in 1..Len(stack) : stack[k].call = i
    /\ \A k \in 2..Len(stack) : calls[stack[k].call].parent = stack[k - 1].call

\* the quadrants of an invocation are searched in the order NW, NE, SW, SE, and
\* everything below one quadrant was invoked and has returned before the next
\* quadrant is invoked
DepthFirst ==
  \A i \in 1..Len(calls) :
    \A q \in 1..Len(calls[i].kids) :
      /\ InQuadrant(calls[calls[i].kids[q]], calls[i], QuadrantNames[q])
      /\ q < Len(calls[i].kids) =>
           \A j \in 1..Len(calls) :
             IsUnder(j, calls[i].kids[q]) =>
               calls[j].returned /\ j < calls[i].kids[q + 1]

\* the details are fetched one place at a time, in the order of uniquePlaces,
\* which is the order of the Map built in step 3
DetailsInOrder ==
  /\ pc \in {"await_details", "sleep_details"} =>
       /\ detailIdx \in 1..Len(uniquePlaces)
       /\ apiCallCount.placesDetails = detailIdx
       /\ Len(detailedPlaces) = IF pc = "await_details" THEN detailIdx - 1 ELSE detailIdx
  /\ \A k \in 1..Len(detailedPlaces) :
       pc # "exited" => detailedPlaces[k].place_id = uniquePlaces[k].place_id
  /\ \A j, k \in 1..Len(uniquePlaces) :
       j < k => PositionOf(aggregated, uniquePlaces[j].place_id)
                  < PositionOf(aggregated, uniquePlaces[k].place_id)

\* the requests issued by a step
IssuedNow ==
  (apiCallCount'.geocoding - apiCallCount.geocoding)
    + (apiCallCount'.placesSearch - apiCallCount.placesSearch)
    + (apiCallCount'.placesDetails - apiCallCount.placesDetails)

\* C16: a step issues a request only when none is outstanding any more, and
\* then one only, so that at most one request is outstanding; only one branch
\* of the recursion is active, the quadrants are searched depth-first in the
\* order NW, NE, SW, SE, and the details are fetched one at a time in the
\* order of the Map.
C16_Sequential ==
  [][ /\ IssuedNow = IF pc' \in Awaiting THEN 1 ELSE 0
      /\ apiCallCount'.geocoding > apiCallCount.geocoding => pc' = "await_geocode"
      /\ apiCallCount'.placesSearch > apiCallCount.placesSearch => pc' = "await_search"
      /\ apiCallCount'.placesDetails > apiCallCount.placesDetails => pc' = "await_details"
      /\ OneBranchActive'
      /\ DepthFirst'
      /\ DetailsInOrder' ]_vars

\* the details of a second place are awaited after a search that went two
\* levels deep and came back to search the next quadrant
C16_Witness ==
  /\ pc = "await_details"
  /\ detailIdx >= 2
  /\ \E i \in 1..Len(calls) :
       /\ Len(calls[i].kids) = 4
       /\ \E q \in 1..3 : Len(calls[calls[i].kids[q]].kids) = 4

\* the phase of main the script is in
PhaseOf(p) ==
  CASE p = "start" -> 0
    [] p = "await_geocode" -> 1
    [] p \in {"await_search", "sleep_page"} -> 2
    [] p \in {"await_details", "sleep_details"} -> 3
    [] OTHER -> 4

\* every category has been searched and every invocation has returned
SearchesComplete ==
  /\ typeIdx = Len(PLACE_TYPES)
  /\ stack = <<>>
  /\ \A i \in 1..Len(calls) : calls[i].returned
  /\ \A t \in 1..Len(PLACE_TYPES) :
       \E i \in 1..Len(calls) : calls[i].parent = 0 /\ calls[i].type = PLACE_TYPES[t]

\* C17: the phases of main follow each other in the order geocoding, search,
\* details, output: a search request is issued only once the geocoder has
\* answered, deduplication, filtering and the first details request happen
\* only once all four categories are searched and every invocation has
\* returned, no search request follows them, the list is sorted and written
\* only once every details request is answered, and what is written is the
\* sorted list.
C17_PhaseOrder ==
  [][ /\ PhaseOf(pc') >= PhaseOf(pc)
      /\ PhaseOf(pc') = 2 =>
           responses'.geocode.answered /\ responses'.geocode.status = "OK"
      /\ PhaseOf(pc) >= 2 => apiCallCount'.geocoding = apiCallCount.geocoding
      /\ ( \/ PhaseOf(pc') = 3
           \/ aggregated' # aggregated
           \/ uniquePlaces' # uniquePlaces
           \/ disk' # disk ) => SearchesComplete'
      /\ PhaseOf(pc) >= 3 => apiCallCount'.placesSearch = apiCallCount.placesSearch
      /\ disk'[outputFile] # disk[outputFile] =>
           /\ pc # "await_details"
           /\ Len(detailedPlaces) = Len(uniquePlaces')
           /\ apiCallCount.placesDetails = Len(detailedPlaces)
           /\ apiCallCount'.placesDetails = apiCallCount.placesDetails
           /\ disk'[outputFile].items = detailedPlaces'
           /\ \A j \in 1..Len(detailedPlaces') - 1 :
                detailedPlaces'[j].distance_meters <= detailedPlaces'[j + 1].distance_meters
           /\ pc' = "exited" ]_vars

\* a run through all phases, with paginated and subdivided searches and the
\* details of several places
C17_Witness ==
  /\ pc = "exited"
  /\ exitCode = 0
  /\ paging
  /\ Len(calls) > Len(PLACE_TYPES)
  /\ apiCallCount.placesSearch > Len(calls)
  /\ Len(disk[outputFile].items) >= 2

\* C18: a search request that carries a page token is issued by the step that
\* ends a sleep of 2000 ms, a details request other than the first by the step
\* that ends a sleep of 100 ms; the first request of a searchNearby and the
\* first details request are issued by a step that ends no sleep; a sleep
\* begins only when a response has arrived.
C18_RateLimitDelays ==
  [][ /\ apiCallCount'.placesSearch > apiCallCount.placesSearch =>
           IF sn'.nextPageToken # 0
             THEN pc = "sleep_page" /\ sleepMs = 2000 /\ sleepMs' = 0
             ELSE pc \in {"await_geocode", "await_search"} /\ sleepMs = 0
      /\ apiCallCount'.placesDetails > apiCallCount.placesDetails =>
           IF apiCallCount.placesDetails >= 1
             THEN pc = "sleep_details" /\ sleepMs = 100 /\ sleepMs' = 0
             ELSE pc = "await_search" /\ sleepMs = 0
      /\ sleepMs' # 0 => pc \in Awaiting /\ sleepMs = 0
      /\ pc' \in Awaiting => sleepMs' = 0 ]_vars

\* the details of a second place are awaited in a run whose searches were
\* paginated
C18_Witness ==
  /\ pc = "await_details"
  /\ sleepMs = 0
  /\ detailIdx >= 2
  /\ paging
  /\ apiCallCount.placesSearch > Len(calls)

\* loadExcludeList has run: the geocoder gave a location
ExcludeListLoaded ==
  /\ responses.geocode.answered
  /\ responses.geocode.status = "OK"
  /\ responses.geocode.n >= 1

\* C19: once loadExcludeList has run, excludeList is empty when exclude.json
\* is absent, is not parseable, or is no list, and holds exactly the elements
\* of the list otherwise; the run goes on to the first search request, and
\* when a run ends with an error the error is not one of loading the list.
C19_LoadExcludeList ==
  ExcludeListLoaded =>
    /\ excludeList =
         IF disk[excludeFile].kind = "array"
           THEN {disk[excludeFile].items[k] : k \in 1..Len(disk[excludeFile].items)}
           ELSE {}
    /\ apiCallCount.placesSearch >= 1
    /\ exitCode = 1 => responses.last \in {"search_error", "details_rejected"}

\* a run with an exclude.json that is not parseable wrote an output that
\* holds a place the file's text mentions
C19_Witness ==
  /\ pc = "exited"
  /\ exitCode = 0
  /\ disk[excludeFile].kind = "malformed"
  /\ excludeList = {}
  /\ \E k \in 1..Len(disk[outputFile].items) :
       \E j \in 1..Len(disk[excludeFile].items) :
         disk[outputFile].items[k].place_id = disk[excludeFile].items[j]

\* the requests the searchNearby of invocation c needs: one for each page of
\* MaxResultCount places the provider hands out
RequestsOf(c) ==
  IF paging /\ Len(Holds(c)) > MaxResultCount
    THEN (Len(Holds(c)) + MaxResultCount - 1) \div MaxResultCount
    ELSE 1

\* the requests of the first n invocations
RECURSIVE RequestsUpTo(_)
RequestsUpTo(n) == IF n = 0 THEN 0 ELSE RequestsUpTo(n - 1) + RequestsOf(calls[n])

\* C20: every step that issues a request adds one to the counter of its kind
\* and no other step changes a counter, whether the request fails or not; at
\* the end of a successful run geocoding is 1, placesSearch is the number of
\* search requests of all invocations (one per page), placesDetails is the
\* number of records of the output, and total is their sum.
C20_CallAccounting ==
  [][ /\ apiCallCount'.geocoding
           = apiCallCount.geocoding + IF pc' = "await_geocode" THEN 1 ELSE 0
      /\ apiCallCount'.placesSearch
           = apiCallCount.placesSearch + IF pc' = "await_search" THEN 1 ELSE 0
      /\ apiCallCount'.placesDetails
           = apiCallCount.placesDetails + IF pc' = "await_details" THEN 1 ELSE 0
      /\ (pc' = "exited" /\ exitCode' = 0) =>
           /\ apiCallCount'.geocoding = 1
           /\ apiCallCount'.placesSearch = RequestsUpTo(Len(calls))
           /\ apiCallCount'.placesDetails = Len(disk'[outputFile].items)
           /\ total(apiCallCount')
                = 1 + RequestsUpTo(Len(calls)) + Len(disk'[outputFile].items) ]_vars

\* a successful run with a search of several pages, subdivided searches, and
\* a details request that failed
C20_Witness ==
  /\ pc = "exited"
  /\ exitCode = 0
  /\ \E i \in 1..Len(calls) : RequestsOf(calls[i]) >= 2
  /\ \E i \in 1..Len(calls) : calls[i].depth >= 1
  /\ \E k \in 1..Len(disk[outputFile].items) :
       disk[outputFile].items[k].place_id \in detailsDown
  /\ total(apiCallCount) > 1 + Len(calls) + 1

\* C21 (as claimed): in a run started without a radius argument the radius of
\* the distance filter, RADIUS_METERS, and the radius of every category's
\* top-level search are 1000 m.
C21_DefaultRadius1000 ==
  (radiusArg = <<>> /\ pc # "start") =>
    /\ RADIUS_METERS = Dy(1000)
    /\ \A i \in 1..Len(calls) : calls[i].parent = 0 => calls[i].radius = Dy(1000)

\* the signs of the offsets (north, east) of the quadrants NW, NE, SW, SE
QuadrantSigns == << <<1, -1>>, <<1, 1>>, <<-1, -1>>, <<-1, 1>> >>

\* child call c against its parent p, everything over one denominator: the
\* metres c's centre lies north and east of p's, and the two radii
Displacement(c, p) ==
  LET E == MaxOf(CommonExp(c.center, p.center, c.radius), p.radius.e)
  IN  [north     |-> DyAt(c.center.lat, E) - DyAt(p.center.lat, E),
       east      |-> DyAt(c.center.lng, E) - DyAt(p.center.lng, E),
       newRadius |-> DyAt(c.radius, E),
       radius    |-> DyAt(p.radius, E)]

\* C22: at a subdivision step the children have newRadius = radius / 2 and the
\* k-th child's centre lies exactly newRadius metres north (NW, NE) or south
\* (SW, SE) and newRadius metres west (NW, SW) or east (NE, SE) of the parent's
\* centre; two children are mirror images of each other about the parent's
\* centre, or about the axis through it that they do not share.
C22_ChildCenters ==
  \A i \in 1..Len(calls) :
    \A k \in 1..Len(calls[i].kids) :
      LET d == Displacement(calls[calls[i].kids[k]], calls[i])
      IN  /\ 2 * d.newRadius = d.radius
          /\ d.north = QuadrantSigns[k][1] * d.newRadius
          /\ d.east = QuadrantSigns[k][2] * d.newRadius
          /\ \A j \in 1..Len(calls[i].kids) :
               LET dj == Displacement(calls[calls[i].kids[j]], calls[i])
               IN  /\ dj.north \in {d.north, 0 - d.north}
                   /\ dj.east \in {d.east, 0 - d.east}
                   /\ j + k = 5 => (dj.north = 0 - d.north /\ dj.east = 0 - d.east)

\* a parent of radius 500.5 (half of 1001) whose four children, of radius
\* 250.25, have all been called
C22_Witness ==
  \E i \in 1..Len(calls) :
    /\ Len(calls[i].kids) = 4
    /\ calls[i].depth = 1
    /\ calls[i].radius.e = 1
    /\ calls[calls[i].kids[4]].radius.e = 2
    /\ calls[calls[i].kids[4]].returned

\* the radius argument is not a number, or not a positive one
InvalidRadiusArg ==
  /\ radiusArg # <<>>
  /\ LET digits == IF Head(radiusArg) \in {"-", "+"} THEN Tail(radiusArg) ELSE radiusArg
     IN  \/ digits = <<>>
         \/ ~IsDigit(Head(digits))
         \/ Head(radiusArg) = "-"
         \/ \A k \in 1..Len(digits) :
              (\A j \in 1..k : IsDigit(digits[j])) => digits[k] = "0"

StubsOf(c, n) == [k \in 1..n |-> Stub(world, Holds(c)[k], c.type)]

\* the running searchNearby: the invocation it serves, the offset its pending
\* request carries as page token, and the page and token of the answer to it
Serving == calls[Top(stack).call]

AnswerPage ==
  SubSeq(Holds(Serving), sn.nextPageToken + 1,
         MinOf(sn.nextPageToken + MaxResultCount, Len(Holds(Serving))))

AnswerHasToken == paging /\ sn.nextPageToken + MaxResultCount < Len(Holds(Serving))

\* C24: one searchNearby invocation issues one request per page; a
\* successful response with a continuation token is followed, after the
\* sleep, by one more request that carries that token, the places fetched so
\* far being kept; the first successful response without a token ends the
\* invocation, which returns the places of all its pages in page order; a
\* failed request ends it too; and it does not end in any other way.
C24_PaginationLoop ==
  [][ /\ (pc = "await_search" /\ responses'.last = "search_ok" /\ AnswerHasToken) =>
           /\ pc' = "sleep_page"
           /\ sn'.nextPageToken = sn.nextPageToken + MaxResultCount
           /\ sn'.places = sn.places \o SubSeq(StubsOf(Serving, sn'.nextPageToken),
                                                sn.nextPageToken + 1, sn'.nextPageToken)
           /\ ~calls'[Top(stack).call].searched
           /\ stack' = stack
      /\ pc = "sleep_page" =>
           /\ pc' = "await_search"
           /\ sn' = sn
           /\ sn.nextPageToken # 0
           /\ apiCallCount'.placesSearch = apiCallCount.placesSearch + 1
           /\ calls' = calls
      /\ (pc = "await_search" /\ responses'.last = "search_ok" /\ ~AnswerHasToken) =>
           /\ pc' # "sleep_page"
           /\ calls'[Top(stack).call].searched
           /\ calls'[Top(stack).call].results
                = StubsOf(Serving, sn.nextPageToken + Len(AnswerPage))
           /\ Len(calls'[Top(stack).call].results)
                = IF paging THEN Len(Holds(Serving))
                  ELSE MinOf(MaxResultCount, Len(Holds(Serving)))
           /\ apiCallCount'.placesSearch - apiCallCount.placesSearch
                = IF pc' = "await_search" THEN 1 ELSE 0
      /\ (pc = "await_search" /\ responses'.last = "search_error") =>
           /\ pc' \in {"thrown", "exited"}
           /\ ~calls'[Top(stack).call].searched
      /\ \A i \in 1..Len(calls) :
           (~calls[i].searched /\ calls'[i].searched) =>
             /\ pc = "await_search"
             /\ i = Top(stack).call
             /\ responses'.last = "search_ok"
             /\ ~AnswerHasToken
      /\ pc \in {"await_search", "sleep_page"} =>
           /\ Len(sn.places) = sn.nextPageToken
           /\ sn.nextPageToken % MaxResultCount = 0
           /\ ~Serving.searched ]_vars

\* a searchNearby that fetched two pages and returned all their places
C24_Witness ==
  \E i \in 1..Len(calls) :
    /\ calls[i].searched
    /\ paging
    /\ Len(calls[i].results) > MaxResultCount
    /\ calls[i].results = StubsOf(calls[i], Len(Holds(calls[i])))
    /\ apiCallCount.placesSearch >= 2

\* the points a * 100 m north and b * 100 m east of center
RingProbes(center) ==
  { [lat |-> DyAdd(center.lat, Dy(100 * a)), lng |-> DyAdd(center.lng, Dy(100 * b))] :
      a \in (0 - MaxHectometres)..MaxHectometres,
      b \in (0 - MaxHectometres)..MaxHectometres }

\* p lies in one of the search circles, each taken 5 m wider than it is
InSomeCircle(p, points) ==
  \E k \in 1..Len(points) :
    InCircle(p, points[k].location, DyAdd(points[k].radius, Dy(5)))

\* C25 (as claimed): getSearchPoints(center, radius) returns the single point
\* (center, radius) for radius <= 1000, and for radius > 1000 search circles
\* of 1000 m whose union contains every point within radius of center.
C25_RingCoverage ==
  (pc = "returned" /\ entry = "getSearchPoints") =>
    IF DyLeq(RADIUS_METERS, Dy(1000))
      THEN ret = << [location |-> origin, radius |-> RADIUS_METERS] >>
      ELSE \A p \in RingProbes(origin) :
             InCircle(p, origin, RADIUS_METERS) => InSomeCircle(p, ret)

\* C26 (as claimed): the four circles getQuadrantCenters(center, radius) draws
\* are the circles searchNearbyRecursive searches as the children of
\* (center, radius): the k-th child has the k-th circle's centre and radius.
C26_DebugMapCircles ==
  \A i \in 1..Len(calls) :
    \A k \in 1..Len(calls[i].kids) :
      LET drawn    == getQuadrantCenters(calls[i].center, calls[i].radius)[k]
          searched == calls[calls[i].kids[k]]
      IN  /\ drawn.lat = searched.center.lat
          /\ drawn.lng = searched.center.lng
          /\ drawn.radius = searched.radius

\* the centres alone agree
DebugMapCentres ==
  \A i \in 1..Len(calls) :
    \A k \in 1..Len(calls[i].kids) :
      LET drawn    == getQuadrantCenters(calls[i].center, calls[i].radius)[k]
          searched == calls[calls[i].kids[k]]
      IN  /\ drawn.lat = searched.center.lat
          /\ drawn.lng = searched.center.lng

\* the fixed-ring main is past its search steps
FixedSearchOver == pc \in {"await_details", "sleep_details"} \/ (pc = "exited" /\ exitCode = 0)

\* C27: in the fixed-ring main (RADIUS_METERS = 1000) the subdivided search
\* of step 3 is never entered, whatever the provider answers: searchNearby is
\* invoked once per place type, in PLACE_TYPES order, at (origin, 1000), four
\* times in a run that gets past the searches, also for a type that reached
\* 20 results and was added to hitLimitTypes; and no step removes a place
\* from allPlaces.
C27_FixedNeverSubdivides ==
  [][ /\ searchPoints' = <<>>
      /\ hitIdx' = 0
      /\ pointIdx' = 0
      /\ Len(searches') <= Len(PLACE_TYPES)
      /\ \A k \in 1..Len(searches') :
           searches'[k] = [type |-> PLACE_TYPES[k], location |-> origin',
                           radius |-> Dy(1000)]
      /\ FixedSearchOver' => Len(searches') = Len(PLACE_TYPES)
      /\ Len(allPlaces') >= Len(allPlaces)
      /\ SubSeq(allPlaces', 1, Len(allPlaces)) = allPlaces
      /\ \A k \in 1..Len(hitLimitTypes') :
           \E j \in 1..Len(searches') : searches'[j].type = hitLimitTypes'[k] ]_vars

\* a finished run in which two types reached the limit: four searches were
\* made and allPlaces holds more than two full pages
C27_Witness ==
  /\ entry = "fixedMain"
  /\ pc = "exited"
  /\ exitCode = 0
  /\ Len(hitLimitTypes) = 2
  /\ Len(searches) = 4
  /\ Len(allPlaces) > 2 * MaxResultCount

\* main is past its search loop
SearchLoopOver == pc \in {"await_details", "sleep_details"} \/ (pc = "exited" /\ exitCode = 0)

FirstIndex(list, id) ==
  CHOOSE j \in 1..Len(list) :
    /\ list[j].place_id = id
    /\ \A i \in 1..(j - 1) : list[i].place_id # id

\* list a holds the ids of list b in the order of their first occurrence in b
InOrderOfFirst(a, b) ==
  \A j, k \in 1..Len(a) :
    j < k => FirstIndex(b, a[j].place_id) < FirstIndex(b, a[k].place_id)

\* C29: the aggregated entry of an id has the name and the location of the
\* first stub of allPlaces with that id, and that stub's types followed by
\* the types merged in; the entries are in the order in which their ids
\* first occur in allPlaces, and so are the surviving places, the details
\* requests made for them, the records enriched so far and, among records of
\* equal distance, the records of the output.
C29_FirstSeenWins ==
  Aggregated =>
    /\ \A k \in 1..Len(aggregated) :
         LET first == allPlaces[FirstIndex(allPlaces, aggregated[k].place_id)]
         IN  /\ aggregated[k].name = first.name
             /\ aggregated[k].location = first.location
             /\ SubSeq(aggregated[k].types, 1, Len(first.types)) = first.types
    /\ InOrderOfFirst(aggregated, allPlaces)
    /\ InOrderOfFirst(uniquePlaces, allPlaces)
    /\ \A k \in 1..Len(uniquePlaces) :
         LET first == allPlaces[FirstIndex(allPlaces, uniquePlaces[k].place_id)]
         IN  uniquePlaces[k].name = first.name /\ uniquePlaces[k].location = first.location
    /\ pc \in {"await_details", "sleep_details"} =>
         /\ Len(detailedPlaces) = IF pc = "await_details" THEN detailIdx - 1 ELSE detailIdx
         /\ \A k \in 1..Len(detailedPlaces) :
              /\ detailedPlaces[k].place_id = uniquePlaces[k].place_id
              /\ detailedPlaces[k].name = uniquePlaces[k].name
    /\ (pc = "exited" /\ exitCode = 0) =>
         LET out == disk[outputFile].items
         IN  /\ \A j, k \in 1..Len(out) :
                  (j < k /\ out[j].distance_meters = out[k].distance_meters) =>
                    FirstIndex(allPlaces, out[j].place_id)
                      < FirstIndex(allPlaces, out[k].place_id)
             /\ \A k \in 1..Len(out) :
                  out[k].name = allPlaces[FirstIndex(allPlaces, out[k].place_id)].name

\* a finished run in which an id was found under two categories with
\* different names, and the output holds it, with other records at the same
\* distance, under its first name
C29_Witness ==
  /\ pc = "exited"
  /\ exitCode = 0
  /\ \E k \in 1..Len(disk[outputFile].items) :
       LET r == disk[outputFile].items[k]
       IN  /\ \E j \in 1..Len(allPlaces) :
                /\ allPlaces[j].place_id = r.place_id
                /\ allPlaces[j].name # r.name
           /\ \E j \in 1..Len(disk[outputFile].items) :
                /\ j # k
                /\ disk[outputFile].items[j].distance_meters = r.distance_meters

\* the id is an element of the list in exclude.json
ListedInExcludeFile(id) ==
  /\ disk[excludeFile].kind = "array"
  /\ \E j \in 1..Len(disk[excludeFile].items) : disk[excludeFile].items[j] = id

\* the place is RADIUS_METERS + 1/2 metres or more from the origin
BeyondRadius(place) ==
  FourSquaredDistance(place) >= (2 * RADIUS_METERS.n + 1) * (2 * RADIUS_METERS.n + 1)

\* the ids some searchNearby returned
ReturnedIds == UNION {IdSet(calls[i].results) : i \in 1..Len(calls)}

\* the ids of the stubs found that are neither excluded nor beyond the radius
Survivors ==
  {allPlaces[j].place_id : j \in {i \in 1..Len(allPlaces) :
     ~ListedInExcludeFile(allPlaces[i].place_id) /\ ~BeyondRadius(allPlaces[i])}}

\* C30: a details request is issued only for an id that some search
\* returned, that is not excluded and not beyond the radius, and for which no
\* request was issued before; the details counter moves with these requests
\* only; and the output of a successful run holds exactly one record for each
\* surviving id, one request having been issued for each, whether or not the
\* request was answered with an error.
C30_OutputEnrichment ==
  [][ /\ pc' = "await_details" =>
           LET place == uniquePlaces'[detailIdx']
           IN  /\ detailIdx' = detailIdx + 1
               /\ apiCallCount'.placesDetails = detailIdx'
               /\ place.place_id \in ReturnedIds'
               /\ place.place_id \in Survivors'
               /\ \A j \in 1..(detailIdx' - 1) :
                    uniquePlaces'[j].place_id # place.place_id
      /\ pc' # "await_details" =>
           apiCallCount'.placesDetails = apiCallCount.placesDetails
      /\ (pc' = "exited" /\ exitCode' = 0) =>
           LET out == disk'[outputFile].items
           IN  /\ \A j, k \in 1..Len(out) : out[j].place_id = out[k].place_id => j = k
               /\ IdSet(out) = Survivors'
               /\ IdSet(out) \subseteq ReturnedIds'
               /\ apiCallCount'.placesDetails = Len(out)
               /\ Len(out) = Cardinality(Survivors') ]_vars

\* a finished run in which a place found was excluded, one was beyond the
\* radius, and the output holds two records or more, one of them of a place
\* whose details request failed
C30_Witness ==
  /\ entry = "main"
  /\ pc = "exited"
  /\ exitCode = 0
  /\ \E j \in 1..Len(allPlaces) : ListedInExcludeFile(allPlaces[j].place_id)
  /\ \E j \in 1..Len(allPlaces) : BeyondRadius(allPlaces[j])
  /\ Len(disk[outputFile].items) >= 2
  /\ \E k \in 1..Len(disk[outputFile].items) :
       /\ disk[outputFile].items[k].place_id \in detailsDown
       /\ HasDefaults(disk[outputFile].items[k])

TypeOK ==
  /\ pc \in {"start", "await_geocode", "await_search", "sleep_page", "await_details",
             "sleep_details", "exited", "call", "returned", "thrown"}
  /\ entry \in {"main", "fixedMain", "searchNearbyRecursive", "parseOpeningHours",
                "getSearchPoints"}
  /\ hitIdx \in 0..Len(hitLimitTypes)
  /\ pointIdx \in 0..Len(searchPoints)
  /\ sleepMs \in {0, 100, 2000}
  /\ exitCode \in {-1, 0, 1}

====
